---- MODULE Spec2Model ----
(***************************************************************************)
(* Model of scripts/update_payload/checker.py: the update payload checker  *)
(* (PayloadChecker) and its report generator (_PayloadReport).             *)
(*                                                                         *)
(* The checks are pure operators that return a record with the exception   *)
(* they end in (exc = "none" when they return normally).  PayloadChecker's *)
(* Run is a state machine over its stages; the payload under check is      *)
(* revealed to the model as the checker reads it.                          *)
(***************************************************************************)
EXTENDS Integers, Sequences, FiniteSets, TLC

\* Python's None: an optional field that is absent (protobuf HasField false).
None == 0 - 1

\* ---------------------------------------------------------------------------
\* Constants of the program
\* ---------------------------------------------------------------------------
_TYPE_FULL == "full"
_TYPE_DELTA == "delta"
_DEFAULT_BLOCK_SIZE == 4096

\* common.OpType
REPLACE == "REPLACE"
REPLACE_BZ == "REPLACE_BZ"
MOVE == "MOVE"
BSDIFF == "BSDIFF"
OpTypes == {REPLACE, REPLACE_BZ, MOVE, BSDIFF}

\* common.PSEUDO_EXTENT_MARKER is the all-ones value of the start_block field.
\* The field is 64 bits wide in the program and StartBlockBits wide here.
StartBlockBits == 16
PSEUDO_EXTENT_MARKER == 2^StartBlockBits - 1

\* array.array('B'): the largest value of a block counter.
UCHAR_MAX == 255

\* ---------------------------------------------------------------------------
\* Results of a check
\* ---------------------------------------------------------------------------
Ok == [exc |-> "none", msg |-> ""]
PayloadError(m) == [exc |-> "PayloadError", msg |-> m]
Raise(e, m) == [exc |-> e, msg |-> m]

Min(a, b) == IF a < b THEN a ELSE b

\* ---------------------------------------------------------------------------
\* Helper functions
\* ---------------------------------------------------------------------------
RECURSIVE AllOnesBelow(_, _)
\* val & (val - 1) == 0 for val > 0: val has a single bit set.
AllOnesBelow(val, p) ==
  IF p > val THEN FALSE
  ELSE IF p = val THEN TRUE
  ELSE AllOnesBelow(val, 2 * p)

\* A faulty variant of _IsPowerOfTwo: every positive value passes.
_IsPowerOfTwo_AnyPositive(val) == val > 0

_IsPowerOfTwo(val) == val > 0 /\ AllOnesBelow(val, 1)

\* _CheckPresentIff: val1 is None iff val2 is None.
_CheckPresentIff(val1, val2, name1, name2) ==
  IF (val1 = None \/ val2 = None) /\ val1 # val2
  THEN PayloadError(IF val2 = None THEN name1 \o " present without " \o name2
                                   ELSE name2 \o " present without " \o name1)
  ELSE Ok

\* A faulty variant of _CheckBlocksFitLength: a length of exactly
\* (num_blocks - 1) * block_size is let through.
_CheckBlocksFitLength_LowerOffByOne(length, num_blocks, block_size, length_name) ==
  IF length > num_blocks * block_size
  THEN PayloadError(length_name \o " > num blocks * block_size")
  ELSE IF length < (num_blocks - 1) * block_size
  THEN PayloadError(length_name \o " <= (num blocks - 1) * block_size")
  ELSE Ok

\* _CheckBlocksFitLength: (num_blocks - 1) * block_size < length
\*                                               <= num_blocks * block_size.
_CheckBlocksFitLength(length, num_blocks, block_size, length_name) ==
  IF length > num_blocks * block_size
  THEN PayloadError(length_name \o " > num blocks * block_size")
  ELSE IF length <= (num_blocks - 1) * block_size
  THEN PayloadError(length_name \o " <= (num blocks - 1) * block_size")
  ELSE Ok

\* A faulty variant of _CheckLength: the length is not compared with the
\* space of the blocks.
_CheckLength_OnlyNonZero(length, total_blocks, block_size, length_name) ==
  IF length = 0
  THEN PayloadError(length_name \o " is zero")
  ELSE Ok

\* _CheckLength
_CheckLength(length, total_blocks, block_size, length_name) ==
  IF length = 0
  THEN PayloadError(length_name \o " is zero")
  ELSE _CheckBlocksFitLength(length, total_blocks, block_size, length_name)

\* ---------------------------------------------------------------------------
\* Block counters.  A counter array is [is_none, arr]: is_none stands for
\* Python's None (no array allocated); arr[i + 1] is the counter of block i.
\* ---------------------------------------------------------------------------
NoCounters == [is_none |-> TRUE, arr |-> <<>>]

_SizeToNumBlocks(size, block_size) == (size + block_size - 1) \div block_size

_AllocBlockCounters(total_size, block_size) ==
  [is_none |-> FALSE,
   arr |-> [i \in 1..(_SizeToNumBlocks(total_size, block_size)) |-> 0]]

RECURSIVE RecordBlockUsage_Saturates(_, _, _)
\* A faulty variant of RecordBlockUsage: a counter that holds UCHAR_MAX stays
\* as it is.
RecordBlockUsage_Saturates(block_counters, i, end_block) ==
  IF i >= end_block THEN [exc |-> "none", msg |-> "", counters |-> block_counters]
  ELSE IF block_counters.is_none
  THEN [exc |-> "TypeError", msg |-> "NoneType is not subscriptable",
        counters |-> block_counters]
  ELSE IF i >= Len(block_counters.arr)
  THEN [exc |-> "IndexError", msg |-> "array index out of range",
        counters |-> block_counters]
  ELSE RecordBlockUsage_Saturates(
         [block_counters EXCEPT !.arr[i + 1] =
            IF block_counters.arr[i + 1] >= UCHAR_MAX THEN UCHAR_MAX
            ELSE block_counters.arr[i + 1] + 1],
         i + 1, end_block)

RECURSIVE RecordBlockUsage(_, _, _)
\* for i in range(start_block, end_block): block_counters[i] += 1
RecordBlockUsage(block_counters, i, end_block) ==
  IF i >= end_block THEN [exc |-> "none", msg |-> "", counters |-> block_counters]
  ELSE IF block_counters.is_none
  THEN [exc |-> "TypeError", msg |-> "NoneType is not subscriptable",
        counters |-> block_counters]
  ELSE IF i >= Len(block_counters.arr)
  THEN [exc |-> "IndexError", msg |-> "array index out of range",
        counters |-> block_counters]
  ELSE IF block_counters.arr[i + 1] >= UCHAR_MAX
  THEN [exc |-> "OverflowError", msg |-> "unsigned byte integer is greater than maximum",
        counters |-> block_counters]
  ELSE RecordBlockUsage(
         [block_counters EXCEPT !.arr[i + 1] = block_counters.arr[i + 1] + 1],
         i + 1, end_block)

\* ---------------------------------------------------------------------------
\* _CheckExtents.  An extent is [start_block, num_blocks], None when absent.
\* ---------------------------------------------------------------------------
\* A faulty variant of ExceedsUsableSize: only the start of the extent's last
\* block is required to lie within the partition.
ExceedsUsableSize_LastBlockStart(end_block, block_size, usable_size) ==
  usable_size # 0 /\ (end_block - 1) * block_size >= usable_size

\* Check: make sure we're within the partition limit.
ExceedsUsableSize(end_block, block_size, usable_size) ==
  usable_size # 0 /\ end_block * block_size > usable_size

RECURSIVE CheckExtentsFrom_RealBlocksOnly(_, _, _, _, _, _, _, _)
\* A faulty variant of CheckExtentsFrom: the blocks of a pseudo-extent are
\* left out of the total.
CheckExtentsFrom_RealBlocksOnly(extents, k, total_num_blocks, usable_size, block_counters, allow_pseudo, allow_signature, block_size) ==
  IF k > Len(extents)
  THEN [exc |-> "none", msg |-> "", counters |-> block_counters,
        total |-> total_num_blocks]
  ELSE
    LET ex == extents[k]
        start_block == ex.start_block
        num_blocks == ex.num_blocks
        end_block == start_block + num_blocks
        fail(e, m) == [exc |-> e, msg |-> m, counters |-> block_counters,
                       total |-> total_num_blocks]
    IN
    IF start_block = None THEN fail("PayloadError", "missing mandatory field start_block")
    ELSE IF num_blocks = None THEN fail("PayloadError", "missing mandatory field num_blocks")
    ELSE IF num_blocks = 0 THEN fail("PayloadError", "extent length is zero")
    ELSE IF start_block # PSEUDO_EXTENT_MARKER
    THEN
      IF ExceedsUsableSize(end_block, block_size, usable_size)
      THEN fail("PayloadError", "extent exceeds usable partition size")
      ELSE
        LET rec == RecordBlockUsage(block_counters, start_block, end_block) IN
        IF rec.exc # "none" THEN fail(rec.exc, rec.msg)
        ELSE CheckExtentsFrom_RealBlocksOnly(
               extents, k + 1, total_num_blocks + num_blocks, usable_size,
               rec.counters, allow_pseudo, allow_signature, block_size)
    ELSE IF ~(allow_pseudo \/ (allow_signature /\ Len(extents) = 1))
    THEN fail("PayloadError", "unexpected pseudo-extent")
    ELSE CheckExtentsFrom_RealBlocksOnly(
           extents, k + 1, total_num_blocks, usable_size, block_counters,
           allow_pseudo, allow_signature, block_size)

RECURSIVE CheckExtentsFrom(_, _, _, _, _, _, _, _)
CheckExtentsFrom(extents, k, total_num_blocks, usable_size, block_counters, allow_pseudo, allow_signature, block_size) ==
  IF k > Len(extents)
  THEN [exc |-> "none", msg |-> "", counters |-> block_counters,
        total |-> total_num_blocks]
  ELSE
    LET ex == extents[k]
        start_block == ex.start_block
        num_blocks == ex.num_blocks
        end_block == start_block + num_blocks
        fail(e, m) == [exc |-> e, msg |-> m, counters |-> block_counters,
                       total |-> total_num_blocks]
    IN
    IF start_block = None THEN fail("PayloadError", "missing mandatory field start_block")
    ELSE IF num_blocks = None THEN fail("PayloadError", "missing mandatory field num_blocks")
    ELSE IF num_blocks = 0 THEN fail("PayloadError", "extent length is zero")
    ELSE IF start_block # PSEUDO_EXTENT_MARKER
    THEN
      IF ExceedsUsableSize(end_block, block_size, usable_size)
      THEN fail("PayloadError", "extent exceeds usable partition size")
      ELSE
        LET rec == RecordBlockUsage(block_counters, start_block, end_block) IN
        IF rec.exc # "none" THEN fail(rec.exc, rec.msg)
        ELSE CheckExtentsFrom(extents, k + 1, total_num_blocks + num_blocks,
                              usable_size, rec.counters, allow_pseudo,
                              allow_signature, block_size)
    ELSE IF ~(allow_pseudo \/ (allow_signature /\ Len(extents) = 1))
    THEN fail("PayloadError", "unexpected pseudo-extent")
    ELSE CheckExtentsFrom(extents, k + 1, total_num_blocks + num_blocks,
                          usable_size, block_counters, allow_pseudo,
                          allow_signature, block_size)

_CheckExtents(extents, usable_size, block_counters, allow_pseudo, allow_signature, block_size) ==
  CheckExtentsFrom(extents, 1, 0, usable_size, block_counters, allow_pseudo,
                   allow_signature, block_size)

\* ---------------------------------------------------------------------------
\* Type-specific checks.  An operation is a record
\*   [type, src_extents, dst_extents, src_length, dst_length,
\*    data_offset, data_length, data_sha256_hash]
\* whose optional fields are None when absent.
\* ---------------------------------------------------------------------------
\* A faulty variant of _CheckReplaceOperation: the data of a REPLACE are held
\* to the bound of the compressed types.
_CheckReplaceOperation_AlwaysBelow(op, data_length, total_dst_blocks, block_size) ==
  IF op.src_extents # <<>>
  THEN PayloadError("contains src_extents")
  ELSE IF data_length = None
  THEN PayloadError("missing data_{offset,length}")
  ELSE IF data_length >= total_dst_blocks * block_size
  THEN PayloadError("data_length must be less than allotted dst block space")
  ELSE Ok

\* _CheckReplaceOperation
_CheckReplaceOperation(op, data_length, total_dst_blocks, block_size) ==
  IF op.src_extents # <<>>
  THEN PayloadError("contains src_extents")
  ELSE IF data_length = None
  THEN PayloadError("missing data_{offset,length}")
  ELSE IF op.type = REPLACE
  THEN _CheckBlocksFitLength(data_length, total_dst_blocks, block_size,
                             "data_length")
  ELSE IF data_length >= total_dst_blocks * block_size
  THEN PayloadError("data_length must be less than allotted dst block space")
  ELSE Ok

\* The state of the parallel walk of _CheckMoveOperation: i, the number of
\* extents taken from each iterator (src_taken, dst_taken), whether an extent
\* is held (src_extent / dst_extent is not None), and the running indices;
\* steps counts the iterations of the loop.
MoveWalkStart ==
  [i |-> 0, src_taken |-> 0, dst_taken |-> 0,
   src_extent |-> FALSE, dst_extent |-> FALSE,
   src_idx |-> 0, src_num |-> 0, dst_idx |-> 0, dst_num |-> 0, steps |-> 0]

\* A faulty variant of SameSrcDstBlock: the block numbers are compared for
\* the first pair of extents only.
SameSrcDstBlock_FirstPairOnly(check_move_same_src_dst_block, w) ==
  check_move_same_src_dst_block /\ w.i = 0 /\ w.src_idx = w.dst_idx

\* self.check_move_same_src_dst_block and src_idx == dst_idx
SameSrcDstBlock(check_move_same_src_dst_block, w) ==
  check_move_same_src_dst_block /\ w.src_idx = w.dst_idx

\* The walk w with the result r of the check.
Walked(r, w) == [exc |-> r.exc, msg |-> r.msg, walk |-> w]

\* src_extent = src_extent_iter.next()
NextSrcExtent(op, w) ==
  IF w.src_extent THEN w
  ELSE [w EXCEPT !.src_extent = TRUE,
                 !.src_taken = w.src_taken + 1,
                 !.src_idx = op.src_extents[w.src_taken + 1].start_block,
                 !.src_num = op.src_extents[w.src_taken + 1].num_blocks]

\* dst_extent = dst_extent_iter.next()
NextDstExtent(op, w) ==
  IF w.dst_extent THEN w
  ELSE [w EXCEPT !.dst_extent = TRUE,
                 !.dst_taken = w.dst_taken + 1,
                 !.dst_idx = op.dst_extents[w.dst_taken + 1].start_block,
                 !.dst_num = op.dst_extents[w.dst_taken + 1].num_blocks]

\* A faulty variant of Advance: i moves on by one block at a time while the
\* extents move on by advance.
Advance_OneBlock(w, advance) ==
  [w EXCEPT !.i = w.i + 1,
            !.src_idx = w.src_idx + advance,
            !.src_num = w.src_num - advance,
            !.src_extent = (w.src_num - advance # 0),
            !.dst_idx = w.dst_idx + advance,
            !.dst_num = w.dst_num - advance,
            !.dst_extent = (w.dst_num - advance # 0),
            !.steps = w.steps + 1]

\* advance = min(src_num, dst_num) and the updates that follow it.
Advance(w, advance) ==
  [w EXCEPT !.i = w.i + advance,
            !.src_idx = w.src_idx + advance,
            !.src_num = w.src_num - advance,
            !.src_extent = (w.src_num - advance # 0),
            !.dst_idx = w.dst_idx + advance,
            !.dst_num = w.dst_num - advance,
            !.dst_extent = (w.dst_num - advance # 0),
            !.steps = w.steps + 1]

RECURSIVE MoveWalk(_, _, _, _)
\* The iteration once both extents are held: the comparison and the advance.
MoveWalkCompare(op, w, total_src_blocks, check_move_same_src_dst_block) ==
  IF SameSrcDstBlock(check_move_same_src_dst_block, w)
  THEN Walked(PayloadError("src/dst block number is the same"), w)
  ELSE MoveWalk(op, Advance(w, Min(w.src_num, w.dst_num)), total_src_blocks,
                check_move_same_src_dst_block)

\* The iteration once the src extent is held: get the next dst extent.
MoveWalkDst(op, w, total_src_blocks, check_move_same_src_dst_block) ==
  IF ~w.dst_extent /\ w.dst_taken >= Len(op.dst_extents)
  THEN Walked(PayloadError("ran out of dst extents"), w)
  ELSE MoveWalkCompare(op, NextDstExtent(op, w), total_src_blocks,
                       check_move_same_src_dst_block)

\* while i < total_src_blocks: ... ; then the two 'excess' checks.
MoveWalk(op, w, total_src_blocks, check_move_same_src_dst_block) ==
  IF w.i >= total_src_blocks
  THEN IF w.src_extent THEN Walked(PayloadError("excess src blocks"), w)
       ELSE IF w.dst_extent THEN Walked(PayloadError("excess dst blocks"), w)
       ELSE Walked(Ok, w)
  ELSE IF ~w.src_extent /\ w.src_taken >= Len(op.src_extents)
  THEN Walked(PayloadError("ran out of src extents"), w)
  ELSE MoveWalkDst(op, NextSrcExtent(op, w), total_src_blocks,
                   check_move_same_src_dst_block)

\* A faulty variant of _CheckMoveOperation: the totals of src and dst blocks
\* are compared only when the same-block test is enabled.
_CheckMoveOperation_TotalsWithSameBlock(op, data_offset, total_src_blocks, total_dst_blocks, check_move_same_src_dst_block) ==
  IF data_offset # None
  THEN Walked(PayloadError("contains data_{offset,length}"), MoveWalkStart)
  ELSE IF check_move_same_src_dst_block /\ total_src_blocks # total_dst_blocks
  THEN Walked(PayloadError("total src blocks != total dst blocks"), MoveWalkStart)
  ELSE MoveWalk(op, MoveWalkStart, total_src_blocks,
                check_move_same_src_dst_block)

\* _CheckMoveOperation
_CheckMoveOperation(op, data_offset, total_src_blocks, total_dst_blocks, check_move_same_src_dst_block) ==
  IF data_offset # None
  THEN Walked(PayloadError("contains data_{offset,length}"), MoveWalkStart)
  ELSE IF total_src_blocks # total_dst_blocks
  THEN Walked(PayloadError("total src blocks != total dst blocks"), MoveWalkStart)
  ELSE MoveWalk(op, MoveWalkStart, total_src_blocks,
                check_move_same_src_dst_block)

\* A faulty variant of _CheckBsdiffOperation: data that fill the dst blocks
\* exactly are let through.
_CheckBsdiffOperation_AllowsEqual(data_length, total_dst_blocks, block_size) ==
  IF data_length = None
  THEN PayloadError("missing data_{offset,length}")
  ELSE IF data_length > total_dst_blocks * block_size
  THEN PayloadError("data_length must be smaller than allotted dst space")
  ELSE Ok

\* _CheckBsdiffOperation
_CheckBsdiffOperation(data_length, total_dst_blocks, block_size) ==
  IF data_length = None
  THEN PayloadError("missing data_{offset,length}")
  ELSE IF data_length >= total_dst_blocks * block_size
  THEN PayloadError("data_length must be smaller than allotted dst space")
  ELSE Ok


\* SHA-256 digests are drawn from Digests; actual_hash is the digest of the
\* bytes payload.ReadDataBlob(data_offset, data_length) returns.
Digests == {"h0", "h1"}
NoHash == "None"

\* A faulty variant of CheckDataOffset: only an offset below the cursor is
\* rejected, a gap in the data section is not.
CheckDataOffset_OnlyBackwards(data_offset, prev_data_offset) ==
  IF data_offset # None /\ data_offset < prev_data_offset
  THEN PayloadError("data offset not matching amount used so far")
  ELSE Ok

\* Check: contiguous use of data section.
CheckDataOffset(data_offset, prev_data_offset) ==
  IF data_offset # None /\ data_offset # prev_data_offset
  THEN PayloadError("data offset not matching amount used so far")
  ELSE Ok

\* The result of _CheckOperation when it raises before its return.
OpFail(r, old_counters, new_counters, tsb, tdb) ==
  [exc |-> r.exc, msg |-> r.msg, old_counters |-> old_counters,
   new_counters |-> new_counters, data_used |-> 0, blob |-> "none",
   total_src_blocks |-> tsb, total_dst_blocks |-> tdb]

\* Check: hash verification, or an unhashed blob that is allowed.
CheckDataHash(self, op, allow_signature_in_extents, actual_hash) ==
  IF op.data_sha256_hash # NoHash
  THEN IF op.data_offset = None
       THEN PayloadError("data_sha256_hash present but no data_{offset,length}")
       ELSE IF op.data_sha256_hash # actual_hash
       THEN PayloadError("data_sha256_hash does not match actual hash")
       ELSE Ok
  ELSE IF op.data_offset # None
          /\ ~allow_signature_in_extents /\ ~self.allow_unhashed
  THEN PayloadError("unhashed operation not allowed")
  ELSE Ok

\* The entry of blob_hash_counts the operation increments ("none": no entry).
BlobKind(op, allow_signature_in_extents) ==
  IF op.data_sha256_hash # NoHash THEN "hashed"
  ELSE IF op.data_offset = None THEN "none"
  ELSE IF allow_signature_in_extents THEN "signature"
  ELSE "unhashed"

\* Type-specific checks.
CheckType(self, op, total_src_blocks, total_dst_blocks) ==
  IF op.type \in {REPLACE, REPLACE_BZ}
  THEN _CheckReplaceOperation(op, op.data_length, total_dst_blocks,
                              self.block_size)
  ELSE IF self.payload_type = _TYPE_FULL
  THEN PayloadError("non-REPLACE operation in a full payload")
  ELSE IF op.type = MOVE
  THEN _CheckMoveOperation(op, op.data_offset, total_src_blocks,
                           total_dst_blocks, self.check_move_same_src_dst_block)
  ELSE IF op.type = BSDIFF
  THEN _CheckBsdiffOperation(op.data_length, total_dst_blocks, self.block_size)
  ELSE Raise("AssertionError", "cannot get here")

\* What _CheckOperation ends in: r is the first of its checks after the
\* extent checks that raises; src and dst are the results of _CheckExtents.
OperationResult(op, src, dst, allow_signature_in_extents, r) ==
  IF r.exc # "none"
  THEN OpFail(r, src.counters, dst.counters, src.total, dst.total)
  ELSE [exc |-> "none", msg |-> "", old_counters |-> src.counters,
        new_counters |-> dst.counters,
        data_used |-> IF op.data_length # None THEN op.data_length ELSE 0,
        blob |-> BlobKind(op, allow_signature_in_extents),
        total_src_blocks |-> src.total,
        total_dst_blocks |-> dst.total]

\* The first of the checks of a list that raises, Ok when none does.
RECURSIVE FirstFailure(_)
FirstFailure(checks) ==
  IF checks = <<>> THEN Ok
  ELSE IF Head(checks).exc # "none"
  THEN [exc |-> Head(checks).exc, msg |-> Head(checks).msg]
  ELSE FirstFailure(Tail(checks))

\* _CheckOperation once the dst extents were checked.
CheckOperationAfterExtents(self, op, src, dst, prev_data_offset, allow_signature_in_extents, actual_hash) ==
  IF dst.exc # "none"
  THEN OpFail(dst, src.counters, dst.counters, src.total, 0)
  ELSE OperationResult(
         op, src, dst, allow_signature_in_extents,
         FirstFailure(<<
           _CheckPresentIff(op.data_offset, op.data_length, "data_offset",
                            "data_length"),
           IF op.dst_extents = <<>> THEN PayloadError("dst_extents is empty")
           ELSE Ok,
           IF op.src_length # None
           THEN _CheckLength(op.src_length, src.total, self.block_size,
                             "src_length")
           ELSE Ok,
           IF op.dst_length # None
           THEN _CheckLength(op.dst_length, dst.total, self.block_size,
                             "dst_length")
           ELSE Ok,
           CheckDataHash(self, op, allow_signature_in_extents, actual_hash),
           CheckDataOffset(op.data_offset, prev_data_offset),
           CheckType(self, op, src.total, dst.total) >>))

\* _CheckOperation once the src extents were checked.
CheckOperationAfterSrc(self, op, src, new_block_counters, new_usable_size, prev_data_offset, allow_signature_in_extents, actual_hash) ==
  IF src.exc # "none"
  THEN OpFail(src, src.counters, new_block_counters, 0, 0)
  ELSE CheckOperationAfterExtents(
         self, op, src,
         _CheckExtents(op.dst_extents, new_usable_size, new_block_counters,
                       ~self.check_dst_pseudo_extents,
                       allow_signature_in_extents, self.block_size),
         prev_data_offset, allow_signature_in_extents, actual_hash)

\* A faulty variant of AllowSignatureInExtents: any REPLACE of the sequence
\* that may end in a signature operation is taken for one, not only the last.
AllowSignatureInExtents_NotOnlyLast(allow_signature, is_last, type) ==
  allow_signature /\ type = REPLACE

\* allow_signature_in_extents
AllowSignatureInExtents(allow_signature, is_last, type) ==
  allow_signature /\ is_last /\ type = REPLACE

\* _CheckOperation.  self is the checker: block_size, payload_type,
\* allow_unhashed and the check_* switches.
_CheckOperation(self, op, is_last, old_block_counters, new_block_counters, old_fs_size, new_usable_size, prev_data_offset, allow_signature, actual_hash) ==
  CheckOperationAfterSrc(
    self, op,
    _CheckExtents(op.src_extents, old_fs_size, old_block_counters, TRUE, FALSE,
                  self.block_size),
    new_block_counters, new_usable_size, prev_data_offset,
    AllowSignatureInExtents(allow_signature, is_last, op.type), actual_hash)


\* ---------------------------------------------------------------------------
\* _PayloadReport.  A report is [report, is_finalized]; report is the list of
\* nodes.  A node is [kind, name, value, sub]: a FieldNode (name, value), a
\* SectionNode (name is the title, None for the global one) or a
\* SubReportNode (name is the title, sub the node list of the nested report).
\* Values are strings; the column padding of field names is not modelled.
\* ---------------------------------------------------------------------------
NoName == "None"
FieldNode(name, value) ==
  [kind |-> "field", name |-> name, value |-> value, sub |-> <<>>]
SubReportNode(title) ==
  [kind |-> "sub", name |-> title, value |-> "", sub |-> <<>>]
SectionNode(title) ==
  [kind |-> "section", name |-> title, value |-> "", sub |-> <<>>]

\* _PayloadReport.__init__
NewReport == [report |-> <<>>, is_finalized |-> FALSE]

\* 'assert not self.is_finalized', then self.report.append(node)
AppendNode(rep, node) ==
  IF rep.is_finalized
  THEN [exc |-> "AssertionError", rep |-> rep]
  ELSE [exc |-> "none", rep |-> [rep EXCEPT !.report = Append(@, node)]]

AddField(rep, name, value) == AppendNode(rep, FieldNode(name, value))
AddSubReport(rep, title) == AppendNode(rep, SubReportNode(title))
AddSection(rep, title) == AppendNode(rep, SectionNode(title))
Finalize(rep) == [rep EXCEPT !.is_finalized = TRUE]

\* AddField on the sub-report held by node j (the object AddSubReport
\* returned); a nested report is never finalized.
AddSubField(rep, j, name, value) ==
  [rep EXCEPT !.report[j].sub = Append(@, FieldNode(name, value))]

RECURSIVE Spaces(_)
Spaces(n) == IF n <= 0 THEN "" ELSE " " \o Spaces(n - 1)

\* Node._Indent
_Indent(indent, line) == Spaces(indent) \o line

RECURSIVE GenerateLines(_, _, _)
\* _PayloadReport.GenerateLines with the GenerateLines of the three nodes.
GenerateLines(nodes, base_indent, sub_indent) ==
  IF nodes = <<>> THEN <<>>
  ELSE
    LET node == Head(nodes)
        lines ==
          IF node.kind = "field"
          THEN << _Indent(base_indent,
                          (IF node.name # NoName THEN node.name \o " : " ELSE "")
                          \o node.value) >>
          ELSE IF node.kind = "sub"
          THEN << _Indent(base_indent, node.name \o " =>") >>
               \o GenerateLines(node.sub, base_indent + sub_indent, sub_indent)
          ELSE IF node.name # NoName
          THEN << _Indent(base_indent, "=== " \o node.name \o " ===") >>
          ELSE <<>>
    IN lines \o GenerateLines(Tail(nodes), base_indent, sub_indent)

INCOMPLETE == "(incomplete report)"

\* A faulty variant of Dump: the marker is appended whether or not the report
\* is finalized.
Dump_IgnoresFinalized(rep, base_indent, sub_indent) ==
  LET report_lines == GenerateLines(rep.report, base_indent, sub_indent) IN
  IF report_lines # <<>>
  THEN Append(report_lines, INCOMPLETE)
  ELSE report_lines

\* _PayloadReport.Dump: the lines written to out_file.
Dump(rep, base_indent, sub_indent) ==
  LET report_lines == GenerateLines(rep.report, base_indent, sub_indent) IN
  IF report_lines # <<>> /\ ~rep.is_finalized
  THEN Append(report_lines, INCOMPLETE)
  ELSE report_lines

\* ---------------------------------------------------------------------------
\* PayloadChecker.__init__
\* ---------------------------------------------------------------------------
_CHECK_DST_PSEUDO_EXTENTS == "dst-pseudo-extents"
_CHECK_MOVE_SAME_SRC_DST_BLOCK == "move-same-src-dst-block"
_CHECK_PAYLOAD_SIG == "payload-sig"
CHECKS_TO_DISABLE ==
  {_CHECK_DST_PSEUDO_EXTENTS, _CHECK_MOVE_SAME_SRC_DST_BLOCK, _CHECK_PAYLOAD_SIG}

NoType == "None"

NewChecker(assert_type, block_size, allow_unhashed, disabled_tests) ==
  LET bs == IF block_size # 0 THEN block_size ELSE _DEFAULT_BLOCK_SIZE
      checker ==
        [block_size |-> bs,
         payload_type |-> assert_type,
         allow_unhashed |-> allow_unhashed,
         check_dst_pseudo_extents |-> _CHECK_DST_PSEUDO_EXTENTS \notin disabled_tests,
         check_move_same_src_dst_block |->
           _CHECK_MOVE_SAME_SRC_DST_BLOCK \notin disabled_tests,
         check_payload_sig |-> _CHECK_PAYLOAD_SIG \notin disabled_tests,
         sigs_offset |-> 0, sigs_size |-> 0,
         old_rootfs_fs_size |-> 0, old_kernel_fs_size |-> 0,
         new_rootfs_fs_size |-> 0, new_kernel_fs_size |-> 0]
  IN
  IF ~_IsPowerOfTwo(bs)
  THEN PayloadError("expected block size is not a power of two") @@ [checker |-> checker]
  ELSE IF assert_type \notin {NoType, _TYPE_FULL, _TYPE_DELTA}
  THEN PayloadError("invalid assert_type value") @@ [checker |-> checker]
  ELSE Ok @@ [checker |-> checker]

\* ---------------------------------------------------------------------------
\* _CheckSha256Signature.  sig_len is len(sig_data); signed_data is what the
\* verifier prints: [len, prefix, hash] with len its length, prefix its first
\* len(SIG_ASN1_HEADER) bytes and hash the bytes that follow them.
\* ---------------------------------------------------------------------------
SIG_ASN1_HEADER == "SIG_ASN1_HEADER"
SigAsn1HeaderLen == 19
Sha256Len == 32
RsaSigLen == 256

\* A faulty variant of _CheckSha256Signature: a signature longer than 256
\* bytes is let through.
_CheckSha256Signature_AtLeast256(sig_len, signed_data, actual_hash) ==
  IF sig_len < RsaSigLen
  THEN PayloadError("signature size not as expected")
  ELSE IF signed_data.len # SigAsn1HeaderLen + Sha256Len
  THEN PayloadError("unexpected signed data length")
  ELSE IF signed_data.prefix # SIG_ASN1_HEADER
  THEN PayloadError("not containing standard ASN.1 prefix")
  ELSE IF signed_data.hash # actual_hash
  THEN PayloadError("signed hash different from actual")
  ELSE Ok

\* A faulty variant of _CheckSha256Signature: the signed hash is not compared
\* with the actual one.
_CheckSha256Signature_AnyHash(sig_len, signed_data, actual_hash) ==
  IF sig_len # RsaSigLen
  THEN PayloadError("signature size not as expected")
  ELSE IF signed_data.len # SigAsn1HeaderLen + Sha256Len
  THEN PayloadError("unexpected signed data length")
  ELSE IF signed_data.prefix # SIG_ASN1_HEADER
  THEN PayloadError("not containing standard ASN.1 prefix")
  ELSE Ok

_CheckSha256Signature(sig_len, signed_data, actual_hash) ==
  IF sig_len # RsaSigLen
  THEN PayloadError("signature size not as expected")
  ELSE IF signed_data.len # SigAsn1HeaderLen + Sha256Len
  THEN PayloadError("unexpected signed data length")
  ELSE IF signed_data.prefix # SIG_ASN1_HEADER
  THEN PayloadError("not containing standard ASN.1 prefix")
  ELSE IF signed_data.hash # actual_hash
  THEN PayloadError("signed hash different from actual")
  ELSE Ok


\* ---------------------------------------------------------------------------
\* _CheckManifest.  The manifest is a record [block_size, signatures_offset,
\* signatures_size, old_kernel_info, old_rootfs_info, new_kernel_info,
\* new_rootfs_info, n_install, n_kernel]; an info sub-message is
\* [present, size, hash] (hash: whether the field is present); n_install and
\* n_kernel are len(install_operations) and len(kernel_install_operations).
\* The check threads st = [exc, msg, self, report] through its statements.
\* ---------------------------------------------------------------------------
Str(n) == ToString(n)

MFail(st, m) == [st EXCEPT !.exc = "PayloadError", !.msg = m]

\* {size, hash} of an info sub-message whose sub-report is node j;
\* size_field names the checker field that receives the size.
CheckInfo(st, info, j, size_field, msg_name) ==
  IF st.exc # "none" THEN st
  ELSE IF info.size = None
  THEN MFail(st, msg_name \o " missing mandatory field size")
  ELSE
    LET st1 == [st EXCEPT !.self[size_field] = info.size,
                          !.report = AddSubField(st.report, j, "size", Str(info.size))]
    IN IF ~info.hash
       THEN MFail(st1, msg_name \o " missing mandatory field hash")
       ELSE [st1 EXCEPT !.report = AddSubField(st1.report, j, "hash", "<sha256>")]

\* Check: block_size must exist and match the expected value.
ManifestBlockSize(st, manifest) ==
  IF manifest.block_size = None
  THEN MFail(st, "manifest missing mandatory field block_size")
  ELSE LET r == [st EXCEPT !.report =
                   AddField(st.report, "block_size", Str(manifest.block_size)).rep]
       IN IF manifest.block_size # st.self.block_size
          THEN MFail(r, "block_size not as expected")
          ELSE r

\* _CheckOptionalField: the field is reported when present.
OptionalField(rep, name, value) ==
  IF value # None THEN AddField(rep, name, Str(value)).rep ELSE rep

\* Check: signatures_offset <==> signatures_size.
ManifestSignatures(st, manifest) ==
  IF st.exc # "none" THEN st
  ELSE
    LET b == [st EXCEPT
                !.self.sigs_offset = manifest.signatures_offset,
                !.self.sigs_size = manifest.signatures_size,
                !.report = OptionalField(
                             OptionalField(st.report, "signatures_offset",
                                           manifest.signatures_offset),
                             "signatures_size", manifest.signatures_size)]
        c == _CheckPresentIff(manifest.signatures_offset, manifest.signatures_size,
                              "signatures_offset", "signatures_size")
    IN IF c.exc # "none" THEN MFail(b, c.msg) ELSE b

\* _CheckOptionalSubMsg: a sub-report is added when the sub-message is present.
OptionalSubMsg(rep, info, name) ==
  IF info.present THEN AddSubReport(rep, name).rep ELSE rep

\* {size, hash} of old_{kernel,rootfs}_info, whose sub-reports are the nodes
\* oki_report and ori_report; the sizes must fit in the respective partition.
\* A faulty variant of ManifestOldSizes: the old sizes are read but not
\* compared with the partition sizes.
ManifestOldSizes_AnySize(d, manifest, oki_report, ori_report, rootfs_part_size, kernel_part_size) ==
  CheckInfo(CheckInfo(d, manifest.old_kernel_info, oki_report,
                      "old_kernel_fs_size", "old_kernel_info"),
            manifest.old_rootfs_info, ori_report,
            "old_rootfs_fs_size", "old_rootfs_info")

ManifestOldSizes(d, manifest, oki_report, ori_report, rootfs_part_size, kernel_part_size) ==
  LET r == CheckInfo(CheckInfo(d, manifest.old_kernel_info, oki_report,
                               "old_kernel_fs_size", "old_kernel_info"),
                     manifest.old_rootfs_info, ori_report,
                     "old_rootfs_fs_size", "old_rootfs_info")
  IN
  IF r.exc # "none" THEN r
  ELSE IF kernel_part_size # 0 /\ r.self.old_kernel_fs_size > kernel_part_size
  THEN MFail(r, "old kernel content exceed partition size")
  ELSE IF rootfs_part_size # 0 /\ r.self.old_rootfs_fs_size > rootfs_part_size
  THEN MFail(r, "old rootfs content exceed partition size")
  ELSE r

\* A faulty variant of TypeIs: the asserted type is never looked at.
TypeIs_Never(payload_type, type) == FALSE

\* self.payload_type == type: the type asserted at construction (if any) is
\* the given one.
TypeIs(payload_type, type) == payload_type = type

\* Check: old_kernel_info <==> old_rootfs_info; assert/mark the payload type.
ManifestOldInfo(st, manifest, rootfs_part_size, kernel_part_size) ==
  IF st.exc # "none" THEN st
  ELSE
    LET oki == manifest.old_kernel_info
        ori == manifest.old_rootfs_info
        rep_k == OptionalSubMsg(st.report, oki, "old_kernel_info")
        oki_report == Len(rep_k.report)
        st3 == [st EXCEPT !.report = OptionalSubMsg(rep_k, ori, "old_rootfs_info")]
        ori_report == Len(st3.report.report)
    IN
    IF oki.present # ori.present
    THEN MFail(st3, IF oki.present
                    THEN "old_kernel_info present without old_rootfs_info"
                    ELSE "old_rootfs_info present without old_kernel_info")
    ELSE IF oki.present
    THEN
      \* Assert/mark delta payload.
      IF TypeIs(st.self.payload_type, _TYPE_FULL)
      THEN MFail(st3, "apparent full payload contains old_{kernel,rootfs}_info")
      ELSE ManifestOldSizes([st3 EXCEPT !.self.payload_type = _TYPE_DELTA],
                            manifest, oki_report, ori_report, rootfs_part_size,
                            kernel_part_size)
    ELSE
      \* Assert/mark full payload.
      IF TypeIs(st.self.payload_type, _TYPE_DELTA)
      THEN MFail(st3, "apparent delta payload missing old_{kernel,rootfs}_info")
      ELSE [st3 EXCEPT !.self.payload_type = _TYPE_FULL]

\* _CheckMandatorySubMsg followed by {size, hash} of the sub-message.
ManifestNewInfo(st, info, name, size_field) ==
  IF st.exc # "none" THEN st
  ELSE IF ~info.present
  THEN MFail(st, "manifest missing mandatory sub-message " \o name)
  ELSE LET r == AddSubReport(st.report, name).rep
       IN  CheckInfo([st EXCEPT !.report = r], info, Len(r.report), size_field, name)

\* Check: new_{kernel,rootfs} size must fit in respective partition.
\* Check: payload must contain at least one operation.
ManifestSizes(st, manifest, rootfs_part_size, kernel_part_size) ==
  IF st.exc # "none" THEN st
  ELSE IF kernel_part_size # 0 /\ st.self.new_kernel_fs_size > kernel_part_size
  THEN MFail(st, "new kernel content exceed partition size")
  ELSE IF rootfs_part_size # 0 /\ st.self.new_rootfs_fs_size > rootfs_part_size
  THEN MFail(st, "new rootfs content exceed partition size")
  ELSE IF manifest.n_install = 0 /\ manifest.n_kernel = 0
  THEN MFail(st, "payload contains no operations")
  ELSE st

_CheckManifest(self, manifest, report, rootfs_part_size, kernel_part_size) ==
  ManifestSizes(
    ManifestNewInfo(
      ManifestNewInfo(
        ManifestOldInfo(
          ManifestSignatures(
            ManifestBlockSize([exc |-> "none", msg |-> "", self |-> self,
                               report |-> AddSection(report, "manifest").rep],
                              manifest),
            manifest),
          manifest, rootfs_part_size, kernel_part_size),
        manifest.new_kernel_info, "new_kernel_info", "new_kernel_fs_size"),
      manifest.new_rootfs_info, "new_rootfs_info", "new_rootfs_fs_size"),
    manifest, rootfs_part_size, kernel_part_size)


\* ---------------------------------------------------------------------------
\* Histogram.FromKeyList(counters[:n]).GetKeys(): the distinct values among
\* the first n counters (a Python slice stops at the end of the array).
\* ---------------------------------------------------------------------------
HistKeys(arr, n) == {arr[i] : i \in 1..Min(n, Len(arr))}

\* ---------------------------------------------------------------------------
\* Bounds and input domains of the model
\* ---------------------------------------------------------------------------
\* len(install_operations) and len(kernel_install_operations) are at most
MaxInstallOps == 1
MaxKernelOps == 1
\* real extents start at blocks 0..MaxStartBlock and have 0..MaxNumBlocks blocks
MaxStartBlock == 1
MaxNumBlocks == 2
\* the rootfs partition has MaxPartBlocks blocks
MaxPartBlocks == 2
\* the Signatures message has at most MaxSignatures entries
MaxSignatures == 2
\* an extent list of a single operation check has at most MaxExtents extents
MaxExtents == 2

\* Arguments of the constructor: the defaults (no asserted type, the default
\* block size, hashes required, every test enabled) and the calls that differ
\* from them in one argument.
DefaultConfig ==
  [assert_type |-> NoType, block_size |-> 0, allow_unhashed |-> FALSE,
   disabled_tests |-> {}]
Configs ==
  {DefaultConfig,
   [DefaultConfig EXCEPT !.assert_type = _TYPE_FULL],
   [DefaultConfig EXCEPT !.assert_type = _TYPE_DELTA],
   [DefaultConfig EXCEPT !.block_size = _DEFAULT_BLOCK_SIZE],
   [DefaultConfig EXCEPT !.allow_unhashed = TRUE],
   [DefaultConfig EXCEPT !.disabled_tests = CHECKS_TO_DISABLE]}

\* What the external verifier may print for a signature.
SignedData(bs) ==
  {[len |-> SigAsn1HeaderLen + Sha256Len, prefix |-> SIG_ASN1_HEADER, hash |-> h] :
     h \in Digests}
  \cup {[len |-> SigAsn1HeaderLen + Sha256Len, prefix |-> "other", hash |-> "h0"],
        [len |-> Sha256Len, prefix |-> "other", hash |-> "h0"]}


\* manifest_hasher.digest(): the digest of the header and manifest bytes.
ManifestHash == "h0"
\* The digests the blobs of the data section may hash to.
BlobHashes == {"h0"}
\* The digests the payload (manifest and data up to the signatures) may hash to.
PayloadHashes == {"h0"}

\* Arguments of Run.  A signature file is [present, sig_len, signed_data].
NoSigFile == [present |-> FALSE, sig_len |-> 0,
              signed_data |-> [len |-> 0, prefix |-> "", hash |-> ""]]
GoodSigFile ==
  [present |-> TRUE, sig_len |-> RsaSigLen,
   signed_data |-> [len |-> SigAsn1HeaderLen + Sha256Len,
                    prefix |-> SIG_ASN1_HEADER, hash |-> "h0"]]
MetadataSigFiles(bs) ==
  {[GoodSigFile EXCEPT !.signed_data = d] : d \in SignedData(bs)}
  \cup {[GoodSigFile EXCEPT !.sig_len = RsaSigLen - 1]}

\* The payload file: [payload_file_size, data_offset, header_version].
PayloadDataOffset == 24
HeaderVersions == {1, 2}

\* The calls of Run: a usual call (a public key, no metadata signature, no
\* partition sizes, a report file, a file whose data section is MaxPartBlocks
\* blocks long) and the calls that differ from it in one argument or in the
\* file size.
UsualCall(bs) ==
  [pubkey_file_name |-> TRUE, metadata_sig_file |-> NoSigFile,
   rootfs_part_size |-> 0, kernel_part_size |-> 0, report_out_file |-> TRUE,
   payload_file_size |-> PayloadDataOffset + MaxPartBlocks * bs]
Calls(bs) ==
  LET u == UsualCall(bs) IN
  {u, [u EXCEPT !.pubkey_file_name = FALSE], [u EXCEPT !.report_out_file = FALSE],
   [u EXCEPT !.rootfs_part_size = (MaxPartBlocks + 1) * bs],
   [u EXCEPT !.kernel_part_size = MaxPartBlocks * bs],
   [u EXCEPT !.payload_file_size = @ - 1],
   [u EXCEPT !.payload_file_size = @ + bs],
   [u EXCEPT !.payload_file_size = @ + bs - 1],
   [u EXCEPT !.rootfs_part_size = (MaxPartBlocks + 1) * bs,
             !.payload_file_size = @ + bs]}
  \cup {[u EXCEPT !.metadata_sig_file = f] : f \in MetadataSigFiles(bs)}
  \cup {[u EXCEPT !.metadata_sig_file = GoodSigFile, !.pubkey_file_name = FALSE,
                  !.report_out_file = r] : r \in BOOLEAN}

\* The manifest.
NoInfo == [present |-> FALSE, size |-> None, hash |-> FALSE]
Info(size) == [present |-> TRUE, size |-> size, hash |-> TRUE]
\* The usual manifests, full (no old_*_info) and delta: no signatures, a kernel
\* of one block, a rootfs of MaxPartBlocks blocks.
UsualManifests(bs) ==
  {[block_size |-> bs, signatures_offset |-> None, signatures_size |-> None,
    old_kernel_info |-> old[1], old_rootfs_info |-> old[2],
    new_kernel_info |-> Info(bs), new_rootfs_info |-> Info(MaxPartBlocks * bs),
    n_install |-> ni, n_kernel |-> nk] :
     old \in {<<NoInfo, NoInfo>>, <<Info(bs), Info(MaxPartBlocks * bs)>>},
     ni \in 0..MaxInstallOps, nk \in 0..MaxKernelOps}
\* The same with other sizes or with signatures.
OtherManifests(m, bs) ==
  {m,
   [m EXCEPT !.signatures_offset = MaxPartBlocks * bs, !.signatures_size = bs - 1],
   [m EXCEPT !.signatures_offset = MaxPartBlocks * bs, !.signatures_size = 0],
   [m EXCEPT !.signatures_offset = 0, !.signatures_size = MaxPartBlocks * bs],
   [m EXCEPT !.old_rootfs_info.size = IF @ = None THEN None ELSE 0],
   [m EXCEPT !.new_rootfs_info.size = 0],
   [m EXCEPT !.new_rootfs_info.size = @ - 1],
   [m EXCEPT !.new_kernel_info.size = 0]}
\* The same with one element missing or changed.
Defects(m, bs) ==
  {[m EXCEPT !.block_size = None], [m EXCEPT !.block_size = 2 * @],
   [m EXCEPT !.signatures_offset = 0], [m EXCEPT !.signatures_size = 0],
   [m EXCEPT !.old_kernel_info = NoInfo], [m EXCEPT !.old_rootfs_info = NoInfo],
   [m EXCEPT !.old_kernel_info.size = None], [m EXCEPT !.old_kernel_info.hash = FALSE],
   [m EXCEPT !.old_rootfs_info.size = None], [m EXCEPT !.old_rootfs_info.hash = FALSE],
   [m EXCEPT !.new_kernel_info = NoInfo], [m EXCEPT !.new_rootfs_info = NoInfo],
   [m EXCEPT !.new_kernel_info.size = None], [m EXCEPT !.new_kernel_info.hash = FALSE],
   [m EXCEPT !.new_rootfs_info.size = None], [m EXCEPT !.new_rootfs_info.hash = FALSE],
   [m EXCEPT !.new_rootfs_info.size = (MaxPartBlocks + 2) * bs],
   [m EXCEPT !.new_kernel_info.size = (MaxPartBlocks + 1) * bs],
   [m EXCEPT !.old_kernel_info.size = IF @ = None THEN None
                                      ELSE (MaxPartBlocks + 1) * bs,
             !.old_rootfs_info.size = IF @ = None THEN None
                                      ELSE (MaxPartBlocks + 2) * bs]}
Manifests(bs) ==
  LET usual == UsualManifests(bs) IN
  UNION {OtherManifests(m, bs) : m \in usual} \cup UNION {Defects(m, bs) : m \in usual}
NoManifest ==
  [block_size |-> None, signatures_offset |-> None, signatures_size |-> None,
   old_kernel_info |-> NoInfo, old_rootfs_info |-> NoInfo,
   new_kernel_info |-> NoInfo, new_rootfs_info |-> NoInfo,
   n_install |-> 0, n_kernel |-> 0]

\* The operations of a sequence check.
Extent(s, n) == [start_block |-> s, num_blocks |-> n]
Operation(type, src, dst, data_offset, data_length, hash) ==
  [type |-> type, src_extents |-> src, dst_extents |-> dst,
   src_length |-> None, dst_length |-> None,
   data_offset |-> data_offset, data_length |-> data_length,
   data_sha256_hash |-> hash]
\* The usual operations at data offset prev: they write block 0 or blocks 0
\* and 1 of the partition, or are the signature operation (a pseudo-extent).
UsualOps(bs, prev) ==
  {Operation(REPLACE, <<>>, <<Extent(0, 1)>>, prev, bs, "h0"),
   Operation(REPLACE, <<>>, <<Extent(0, 1), Extent(1, 1)>>, prev, 2 * bs, "h0"),
   Operation(REPLACE, <<>>, <<Extent(PSEUDO_EXTENT_MARKER, 1)>>, prev, bs - 1, NoHash),
   Operation(REPLACE_BZ, <<>>, <<Extent(0, 2)>>, prev, bs - 1, "h0"),
   Operation(MOVE, <<Extent(0, 1)>>, <<Extent(1, 1)>>, None, None, NoHash),
   Operation(BSDIFF, <<Extent(0, 1)>>, <<Extent(0, 1)>>, prev, bs - 1, "h0")}
\* The same with one field missing or changed.
OpDefects(op, bs) ==
  {[op EXCEPT !.type = "INVALID"],
   [op EXCEPT !.type = IF @ = MOVE THEN BSDIFF ELSE MOVE],
   [op EXCEPT !.src_extents = IF @ = <<>> THEN <<Extent(0, 1)>> ELSE <<>>],
   [op EXCEPT !.src_extents = <<Extent(PSEUDO_EXTENT_MARKER, 1)>>],
   [op EXCEPT !.dst_extents = <<>>],
   [op EXCEPT !.dst_extents = <<Extent(0, 0)>>],
   [op EXCEPT !.dst_extents = <<Extent(0, 1), Extent(0, 1)>>],
   [op EXCEPT !.dst_extents = <<Extent(0, MaxPartBlocks)>>],
   [op EXCEPT !.dst_extents = <<Extent(MaxPartBlocks, 1)>>],
   [op EXCEPT !.data_offset = IF @ = None THEN 0 ELSE @ + 1],
   [op EXCEPT !.data_offset = None],
   [op EXCEPT !.data_length = None],
   [op EXCEPT !.data_length = IF @ = None THEN None ELSE @ + 1],
   [op EXCEPT !.data_sha256_hash = IF @ = NoHash THEN "h0" ELSE NoHash],
   [op EXCEPT !.data_sha256_hash = "h1"],
   [op EXCEPT !.src_length = 0],
   [op EXCEPT !.dst_length = bs]}
RunOps(bs, prev) ==
  LET usual == UsualOps(bs, prev) IN
  usual \cup UNION {OpDefects(op, bs) : op \in usual}

\* What the Signatures message may hold: entries [version, has_data, sig_len,
\* signed_data] (version None: field absent; has_data: 'data' present).
\* The entries are the usual one and those that differ from it in one field.
GoodSignature ==
  [version |-> 1, has_data |-> TRUE, sig_len |-> RsaSigLen,
   signed_data |-> GoodSigFile.signed_data]
SignatureEntries(bs) ==
  {[GoodSignature EXCEPT !.version = v] : v \in {None, 1, 2}}
  \cup {[GoodSignature EXCEPT !.has_data = FALSE],
        [GoodSignature EXCEPT !.sig_len = RsaSigLen - 1]}
  \cup {[GoodSignature EXCEPT !.signed_data = d] : d \in SignedData(bs)}
RECURSIVE SeqsUpTo(_, _)
SeqsUpTo(S, n) ==
  IF n = 0 THEN {<<>>}
  ELSE LET shorter == SeqsUpTo(S, n - 1) IN
       shorter \cup {Append(q, x) : q \in {r \in shorter : Len(r) = n - 1}, x \in S}

\* ---------------------------------------------------------------------------
\* State
\* ---------------------------------------------------------------------------
VARIABLES
  self,                       \* the PayloadChecker object
  args,                       \* the arguments of Run
  payload,                    \* payload file: file size, data_offset, header
  manifest,                   \* payload.manifest, once _CheckManifest passed
  install_operations,         \* the rootfs operations accepted so far
  kernel_install_operations,  \* the kernel operations accepted so far
  loc,                        \* locals of Run and of _CheckOperations
  report,                     \* the _PayloadReport of Run
  out_file,                   \* report_out_file: [written, lines]
  pc,                         \* the stage Run is at
  exc,                        \* the exception Run ended in ("none": no exception)
  msg,                        \* its message
  op_type,                    \* type of the operation checked last
  checked                     \* the call of _CheckOperation made last

vars == <<self, args, payload, manifest, install_operations,
          kernel_install_operations, loc, report, out_file, pc, exc, msg,
          op_type, checked>>

NoArgs == [pubkey_file_name |-> FALSE, metadata_sig_file |-> NoSigFile,
           rootfs_part_size |-> 0, kernel_part_size |-> 0,
           report_out_file |-> FALSE]
NoPayload ==
  [payload_file_size |-> 0, data_offset |-> 0, header_version |-> 0,
   signatures |-> <<>>, payload_hash |-> NoHash]
\* No operation was checked yet.
NoCheck ==
  [op |-> Operation("none", <<>>, <<>>, None, None, NoHash), is_last |-> FALSE,
   allow_signature |-> FALSE, actual_hash |-> NoHash]
ZeroCounts == [t \in OpTypes |-> 0]
NoLocals ==
  [total_blob_size |-> 0, prev_data_offset |-> 0, total_data_used |-> 0,
   op_num |-> 0, old_fs_size |-> 0, new_fs_size |-> 0, new_usable_size |-> 0,
   allow_signature |-> FALSE,
   old_block_counters |-> NoCounters, new_block_counters |-> NoCounters,
   op_counts |-> ZeroCounts,
   op_blob_totals |-> [t \in {REPLACE, REPLACE_BZ, BSDIFF} |-> 0],
   blob_hash_counts |-> [hashed |-> 0, unhashed |-> 0, signature |-> 0]]

Init ==
  /\ \E cfg \in Configs :
       LET c == NewChecker(cfg.assert_type, cfg.block_size, cfg.allow_unhashed,
                           cfg.disabled_tests)
       IN  c.exc = "none" /\ self = c.checker
  /\ args = NoArgs
  /\ payload = NoPayload
  /\ manifest = NoManifest
  /\ install_operations = <<>>
  /\ kernel_install_operations = <<>>
  /\ loc = NoLocals
  /\ report = NewReport
  /\ out_file = [written |-> FALSE, lines |-> <<>>]
  /\ pc = "run"
  /\ exc = "none"
  /\ msg = ""
  /\ op_type = "none"
  /\ checked = NoCheck

\* A faulty variant of RaiseIn: the error is recorded but the try block is
\* not left, Run stays where it is and goes on.
RaiseIn_Recovers(e, m) ==
  /\ exc' = e
  /\ msg' = m
  /\ pc' = pc
  /\ loc' = loc
  /\ install_operations' = install_operations
  /\ kernel_install_operations' = kernel_install_operations

\* An exception leaves the try block: Run goes to its finally clause.  The
\* locals and the operations accepted so far are dropped.
RaiseIn(e, m) ==
  /\ exc' = e
  /\ msg' = m
  /\ pc' = "finally"
  /\ loc' = NoLocals
  /\ install_operations' = <<>>
  /\ kernel_install_operations' = <<>>


\* ---------------------------------------------------------------------------
\* Run, stage by stage
\* ---------------------------------------------------------------------------
\* Run is called: the report is created, the file size is taken and the
\* metadata signature is checked (if provided).
RunBegin ==
  /\ pc = "run"
  /\ \E call \in Calls(self.block_size) :
       /\ args' = [pubkey_file_name |-> call.pubkey_file_name,
                   metadata_sig_file |-> call.metadata_sig_file,
                   rootfs_part_size |-> call.rootfs_part_size,
                   kernel_part_size |-> call.kernel_part_size,
                   report_out_file |-> call.report_out_file]
       /\ payload' = [payload EXCEPT !.payload_file_size = call.payload_file_size,
                                     !.data_offset = PayloadDataOffset]
       /\ report' = NewReport
       /\ LET r == IF ~call.metadata_sig_file.present THEN Ok
                   ELSE IF ~call.pubkey_file_name
                   THEN PayloadError("no public key provided, cannot verify metadata signature")
                   ELSE _CheckSha256Signature(call.metadata_sig_file.sig_len,
                                              call.metadata_sig_file.signed_data,
                                              ManifestHash)
          IN IF r.exc # "none"
             THEN RaiseIn(r.exc, r.msg)
             ELSE /\ pc' = "header"
                  /\ UNCHANGED <<exc, msg, loc, install_operations,
                                 kernel_install_operations>>
  /\ UNCHANGED <<self, manifest, out_file, op_type, checked>>

\* Part 1: check the file header.
CheckHeader ==
  /\ pc = "header"
  /\ \E version \in HeaderVersions :
       LET r1 == AddSection(report, "header").rep IN
       /\ payload' = [payload EXCEPT !.header_version = version]
       /\ IF version # 1
          THEN /\ report' = r1
               /\ RaiseIn("PayloadError", "unknown payload version")
          ELSE /\ report' = AddField(AddField(r1, "version", Str(version)).rep,
                                     "manifest len", "<len>").rep
               /\ pc' = "manifest"
               /\ UNCHANGED <<exc, msg, loc, install_operations,
                              kernel_install_operations>>
  /\ UNCHANGED <<self, args, manifest, out_file, op_type, checked>>

\* The manifest check ended in st on the manifest m.
ManifestChecked(m, st) ==
  /\ self' = st.self
  /\ report' = st.report
  /\ IF st.exc # "none"
     THEN /\ RaiseIn(st.exc, st.msg)
          /\ UNCHANGED manifest
     ELSE /\ manifest' = m
          /\ pc' = "rootfs_begin"
          /\ UNCHANGED <<exc, msg, loc, install_operations,
                         kernel_install_operations>>

\* Part 2: check the manifest.
CheckManifest ==
  /\ pc = "manifest"
  /\ \E m \in Manifests(self.block_size) :
       ManifestChecked(m, _CheckManifest(self, m, report, args.rootfs_part_size,
                                         args.kernel_part_size))
  /\ UNCHANGED <<args, payload, out_file, op_type, checked>>

\* Parts 3 and 4: _CheckOperations is called on a sequence; its locals are set.
BeginOperations ==
  /\ pc \in {"rootfs_begin", "kernel_begin"}
  /\ LET rootfs == pc = "rootfs_begin"
         old_fs_size == IF rootfs THEN self.old_rootfs_fs_size
                        ELSE self.old_kernel_fs_size
         new_fs_size == IF rootfs THEN self.new_rootfs_fs_size
                        ELSE self.new_kernel_fs_size
         part_size == IF rootfs THEN args.rootfs_part_size
                      ELSE args.kernel_part_size
         new_usable_size == IF part_size # 0 THEN part_size ELSE new_fs_size
     IN
     /\ report' = AddSection(report, IF rootfs THEN "rootfs operations"
                                     ELSE "kernel operations").rep
     /\ loc' = [NoLocals EXCEPT
                  !.total_blob_size = loc.total_blob_size,
                  !.prev_data_offset = IF rootfs THEN 0 ELSE loc.total_blob_size,
                  !.allow_signature = ~rootfs,
                  !.old_fs_size = old_fs_size,
                  !.new_fs_size = new_fs_size,
                  !.new_usable_size = new_usable_size,
                  !.old_block_counters =
                    IF old_fs_size # 0
                    THEN _AllocBlockCounters(old_fs_size, self.block_size)
                    ELSE NoCounters,
                  !.new_block_counters =
                    _AllocBlockCounters(new_usable_size, self.block_size)]
     /\ pc' = IF rootfs THEN "rootfs_ops" ELSE "kernel_ops"
  /\ UNCHANGED <<self, args, payload, manifest, install_operations,
                 kernel_install_operations, out_file, exc, msg, op_type, checked>>

NumOperations == IF pc = "rootfs_ops" THEN manifest.n_install ELSE manifest.n_kernel

\* A faulty variant of OperationChecked: the type of the operation is looked
\* at after its other checks.
OperationChecked_TypeCheckedLast(op, r) ==
  /\ op_type' = op.type
  /\ IF r.exc # "none"
     THEN RaiseIn(r.exc, r.msg)
     ELSE IF op.type \notin OpTypes
     THEN RaiseIn("PayloadError", "invalid type")
     ELSE IF r.data_used # 0 /\ op.type \notin DOMAIN loc.op_blob_totals
     THEN RaiseIn("KeyError", "op_blob_totals")
     ELSE
       /\ loc' = [loc EXCEPT
            !.op_num = @ + 1,
            !.op_counts[op.type] = @ + 1,
            !.old_block_counters = r.old_counters,
            !.new_block_counters = r.new_counters,
            !.blob_hash_counts =
               IF r.blob = "none" THEN @
               ELSE [@ EXCEPT ![r.blob] = @ + 1],
            !.op_blob_totals =
               IF r.data_used # 0
               THEN [@ EXCEPT ![op.type] = @ + r.data_used] ELSE @,
            !.total_data_used =
               IF r.data_used # 0 THEN @ + r.data_used ELSE @]
       /\ IF pc = "rootfs_ops"
          THEN /\ install_operations' = Append(install_operations, op)
               /\ UNCHANGED kernel_install_operations
          ELSE /\ kernel_install_operations' = Append(kernel_install_operations, op)
               /\ UNCHANGED install_operations
       /\ UNCHANGED <<pc, exc, msg>>

\* The rest of an iteration of the loop of _CheckOperations: r is what
\* _CheckOperation ended in on op.
OperationChecked(op, r) ==
  /\ op_type' = op.type
  /\ IF op.type \notin OpTypes
     THEN RaiseIn("PayloadError", "invalid type")
     ELSE IF r.exc # "none"
     THEN RaiseIn(r.exc, r.msg)
     ELSE IF r.data_used # 0 /\ op.type \notin DOMAIN loc.op_blob_totals
     THEN RaiseIn("KeyError", "op_blob_totals")
     ELSE
       /\ loc' = [loc EXCEPT
            !.op_num = @ + 1,
            !.op_counts[op.type] = @ + 1,
            !.old_block_counters = r.old_counters,
            !.new_block_counters = r.new_counters,
            !.blob_hash_counts =
               IF r.blob = "none" THEN @
               ELSE [@ EXCEPT ![r.blob] = @ + 1],
            !.op_blob_totals =
               IF r.data_used # 0
               THEN [@ EXCEPT ![op.type] = @ + r.data_used] ELSE @,
            !.total_data_used =
               IF r.data_used # 0 THEN @ + r.data_used ELSE @]
       /\ IF pc = "rootfs_ops"
          THEN /\ install_operations' = Append(install_operations, op)
               /\ UNCHANGED kernel_install_operations
          ELSE /\ kernel_install_operations' = Append(kernel_install_operations, op)
               /\ UNCHANGED install_operations
       /\ UNCHANGED <<pc, exc, msg>>

\* One iteration of the loop of _CheckOperations, on an operation of ops.
CheckOperationOn(ops) ==
  /\ pc \in {"rootfs_ops", "kernel_ops"}
  /\ loc.op_num < NumOperations
  /\ \E op \in ops, actual_hash \in BlobHashes :
       /\ checked' = [op |-> op, is_last |-> loc.op_num + 1 = NumOperations,
                      allow_signature |-> loc.allow_signature,
                      actual_hash |-> actual_hash]
       /\ OperationChecked(
            op,
            _CheckOperation(self, op, loc.op_num + 1 = NumOperations,
                            loc.old_block_counters, loc.new_block_counters,
                            loc.old_fs_size, loc.new_usable_size,
                            loc.prev_data_offset + loc.total_data_used,
                            loc.allow_signature, actual_hash))
  /\ UNCHANGED <<self, args, payload, manifest, report, out_file>>

\* The operations of a sequence of n operations: those of RunOps, or, in a
\* sequence longer than any other checked here, a MOVE of block 0 to block 1.
SequenceOps(n, bs, prev) ==
  IF n > MaxKernelOps + 1
  THEN {Operation(MOVE, <<Extent(0, 1)>>, <<Extent(1, 1)>>, None, None, NoHash)}
  ELSE RunOps(bs, prev)

CheckOperation ==
  CheckOperationOn(SequenceOps(NumOperations, self.block_size,
                               loc.prev_data_offset + loc.total_data_used))


\* The statistics _CheckOperations reports after its loop; histograms are
\* rendered by the histogram module and stand as "<histogram>".
ReportOperations(rep, l) ==
  LET r1 == AddField(rep, "total operations", Str(l.op_num)).rep
      r2 == AddField(r1, NoName, "<histogram>").rep
      r3 == AddField(r2, "total blobs",
                     Str(l.blob_hash_counts.hashed + l.blob_hash_counts.unhashed
                         + l.blob_hash_counts.signature)).rep
      r4 == AddField(r3, NoName, "<histogram>").rep
      r5 == AddField(r4, "total blob size", Str(l.total_data_used)).rep
      r6 == AddField(r5, NoName, "<histogram>").rep
      r7 == IF ~l.old_block_counters.is_none /\ l.old_block_counters.arr # <<>>
            THEN AddField(r6, "block read hist", "<histogram>").rep
            ELSE r6
  IN AddField(r7, "block write hist", "<histogram>").rep

\* A faulty variant of NotWrittenOnce: only a block written more than once is
\* rejected, an unwritten block is not.
NotWrittenOnce_OnlyRewrites(payload_type, new_block_counters, new_fs_size, block_size) ==
  /\ payload_type = _TYPE_FULL
  /\ \E c \in HistKeys(new_block_counters.arr,
                        _SizeToNumBlocks(new_fs_size, block_size)) : c > 1

\* Full update must write each dst block once.
NotWrittenOnce(payload_type, new_block_counters, new_fs_size, block_size) ==
  /\ payload_type = _TYPE_FULL
  /\ HistKeys(new_block_counters.arr, _SizeToNumBlocks(new_fs_size, block_size)) # {1}

\* The loop of _CheckOperations is over: report, full-update check, return.
EndOperations ==
  /\ pc \in {"rootfs_ops", "kernel_ops"}
  /\ loc.op_num = NumOperations
  /\ report' = ReportOperations(report, loc)
  /\ IF NotWrittenOnce(self.payload_type, loc.new_block_counters,
                       loc.new_fs_size, self.block_size)
     THEN RaiseIn("PayloadError",
                  "not all blocks written exactly once during full update")
     ELSE /\ loc' = [loc EXCEPT !.total_blob_size = @ + loc.total_data_used]
          /\ pc' = IF pc = "rootfs_ops" THEN "kernel_begin" ELSE "payload_size"
          /\ UNCHANGED <<exc, msg, install_operations, kernel_install_operations>>
  /\ UNCHANGED <<self, args, payload, manifest, out_file, op_type, checked>>

\* A faulty variant of PayloadSizeDiffers: only data beyond the end of the
\* file is rejected, unused trailing bytes are not.
PayloadSizeDiffers_OnlyOverrun(used_payload_size, payload_file_size) ==
  used_payload_size > payload_file_size

\* used_payload_size != payload_file_size
PayloadSizeDiffers(used_payload_size, payload_file_size) ==
  used_payload_size # payload_file_size

\* Check: operations data reach the end of the payload file.
CheckPayloadSize ==
  /\ pc = "payload_size"
  /\ LET used_payload_size == payload.data_offset + loc.total_blob_size IN
     IF PayloadSizeDiffers(used_payload_size, payload.payload_file_size)
     THEN RaiseIn("PayloadError", "used payload size different from actual file size")
     ELSE /\ pc' = "signatures"
          /\ UNCHANGED <<exc, msg, loc, install_operations,
                         kernel_install_operations>>
  /\ UNCHANGED <<self, args, payload, manifest, report, out_file, op_type, checked>>

\* op.data_offset / op.data_length read as attributes: 0 when absent.
FieldValue(v) == IF v = None THEN 0 ELSE v

RECURSIVE CheckSignatureEntries(_, _, _, _)
\* The loop of _CheckSignatures over sigs.signatures.
CheckSignatureEntries(sigs, k, rep, payload_hash) ==
  IF k > Len(sigs) THEN [exc |-> "none", msg |-> "", report |-> rep]
  ELSE
    LET sig == sigs[k]
        r0 == AddSubReport(rep, "signatures[" \o Str(k - 1) \o "]").rep
        j == Len(r0.report)
    IN
    IF sig.version = None
    THEN [exc |-> "PayloadError", msg |-> "missing mandatory field version",
          report |-> r0]
    ELSE
      LET r1 == AddSubField(r0, j, "version", Str(sig.version)) IN
      IF ~sig.has_data
      THEN [exc |-> "PayloadError", msg |-> "missing mandatory field data",
            report |-> r1]
      ELSE
        LET r2 == AddSubField(r1, j, "data len", Str(sig.sig_len))
            v == IF sig.version = 1
                 THEN _CheckSha256Signature(sig.sig_len, sig.signed_data,
                                            payload_hash)
                 ELSE PayloadError("unknown signature version")
        IN IF v.exc # "none"
           THEN [exc |-> v.exc, msg |-> v.msg, report |-> r2]
           ELSE CheckSignatureEntries(sigs, k + 1, r2, payload_hash)

\* A faulty variant of FakeSigOpMatches: the type of the operation is not
\* looked at.
FakeSigOpMatches_AnyType(fake_sig_op, sigs_offset, sigs_size) ==
  /\ sigs_offset = FieldValue(fake_sig_op.data_offset)
  /\ sigs_size = FieldValue(fake_sig_op.data_length)

\* A faulty variant of FakeSigOpMatches: the offset of the operation's data
\* is not looked at.
FakeSigOpMatches_AnyOffset(fake_sig_op, sigs_offset, sigs_size) ==
  /\ fake_sig_op.type = REPLACE
  /\ sigs_size = FieldValue(fake_sig_op.data_length)

\* Check: signatures_{offset,size} must match the last (fake) operation.
FakeSigOpMatches(fake_sig_op, sigs_offset, sigs_size) ==
  /\ fake_sig_op.type = REPLACE
  /\ sigs_offset = FieldValue(fake_sig_op.data_offset)
  /\ sigs_size = FieldValue(fake_sig_op.data_length)

\* _CheckSignatures.  sigs is the parsed Signatures message, payload_hash the
\* digest of the manifest and of the data up to sigs_offset.
_CheckSignatures(checker, rep, sigs, install_ops, kernel_ops, payload_hash) ==
  LET r0 == AddSection(rep, "signatures").rep
      last_ops_section == IF kernel_ops # <<>> THEN kernel_ops ELSE install_ops
      fake_sig_op == last_ops_section[Len(last_ops_section)]
  IN
  IF sigs = <<>>
  THEN [exc |-> "PayloadError", msg |-> "signature block is empty", report |-> r0]
  ELSE IF ~FakeSigOpMatches(fake_sig_op, checker.sigs_offset, checker.sigs_size)
  THEN [exc |-> "PayloadError",
        msg |-> "signatures_{offset,size} does not match last operation",
        report |-> r0]
  ELSE CheckSignatureEntries(sigs, 1, r0, payload_hash)

\* The payload signature check ended in r.
SignaturesChecked(r) ==
  /\ report' = r.report
  /\ IF r.exc # "none"
     THEN RaiseIn(r.exc, r.msg)
     ELSE /\ pc' = "summary"
          /\ UNCHANGED <<exc, msg, loc, install_operations,
                         kernel_install_operations>>

\* A faulty variant of SignatureCheckDue: the payload-sig switch is ignored.
SignatureCheckDue_IgnoresSwitch(check_payload_sig, sigs_size) ==
  sigs_size \notin {None, 0}

\* if self.check_payload_sig and self.sigs_size
SignatureCheckDue(check_payload_sig, sigs_size) ==
  check_payload_sig /\ sigs_size \notin {None, 0}

\* Part 5: handle payload signatures message.  The Signatures message read
\* from the payload and the digest of the payload up to it are kept in
\* payload.signatures and payload.payload_hash.
CheckSignatures ==
  /\ pc = "signatures"
  /\ IF SignatureCheckDue(self.check_payload_sig, self.sigs_size)
     THEN IF ~args.pubkey_file_name
          THEN /\ RaiseIn("PayloadError",
                          "no public key provided, cannot verify payload signature")
               /\ UNCHANGED <<report, payload>>
          ELSE \E sigs \in SeqsUpTo(SignatureEntries(self.block_size), MaxSignatures),
                  payload_hash \in PayloadHashes :
                 /\ payload' = [payload EXCEPT !.signatures = sigs,
                                               !.payload_hash = payload_hash]
                 /\ SignaturesChecked(
                      _CheckSignatures(self, report, sigs, install_operations,
                                       kernel_install_operations, payload_hash))
     ELSE /\ pc' = "summary"
          /\ UNCHANGED <<report, payload, exc, msg, loc, install_operations,
                         kernel_install_operations>>
  /\ UNCHANGED <<self, args, manifest, out_file, op_type, checked>>

\* Part 6: summary; the report is finalized and the try block ends.
Summary ==
  /\ pc = "summary"
  /\ report' = Finalize(AddField(AddSection(report, "summary").rep,
                                 "update type", self.payload_type).rep)
  /\ pc' = "finally"
  /\ UNCHANGED <<self, args, payload, manifest, install_operations,
                 kernel_install_operations, loc, out_file, exc, msg, op_type, checked>>

\* finally: the report is dumped if report_out_file was given; Run returns
\* or the exception propagates.
DumpReport ==
  /\ pc = "finally"
  /\ out_file' = IF args.report_out_file
                 THEN [written |-> TRUE, lines |-> Dump(report, 0, 2)]
                 ELSE out_file
  /\ pc' = "done"
  /\ UNCHANGED <<self, args, payload, manifest, install_operations,
                 kernel_install_operations, loc, report, exc, msg, op_type, checked>>

Next ==
  \/ RunBegin
  \/ CheckHeader
  \/ CheckManifest
  \/ BeginOperations
  \/ CheckOperation
  \/ EndOperations
  \/ CheckPayloadSize
  \/ CheckSignatures
  \/ Summary
  \/ DumpReport

Spec == Init /\ [][Next]_vars

\* ---------------------------------------------------------------------------
\* Run on checkers constructed with the block sizes of BlockSizes and the
\* defaults otherwise.  When the constructor raises, no checker exists and
\* there is no Run: exc and msg hold the exception and self the object as the
\* constructor left it.
\* ---------------------------------------------------------------------------
BlockSizes == {0, 1, 2, 4095, 4096, 4097}

BlockInit ==
  /\ \E block_size \in BlockSizes :
       LET c == NewChecker(NoType, block_size, FALSE, {}) IN
       /\ self = c.checker
       /\ exc = c.exc
       /\ msg = c.msg
       /\ pc = IF c.exc = "none" THEN "run" ELSE "done"
  /\ args = NoArgs
  /\ payload = NoPayload
  /\ manifest = NoManifest
  /\ install_operations = <<>>
  /\ kernel_install_operations = <<>>
  /\ loc = NoLocals
  /\ report = NewReport
  /\ out_file = [written |-> FALSE, lines |-> <<>>]
  /\ op_type = "none"
  /\ checked = NoCheck

BlockSpec == BlockInit /\ [][Next]_vars

\* ---------------------------------------------------------------------------
\* The metadata signature check of Run on a richer domain of signatures and
\* of verifier results.  _Run returns what the verifier wrote, whatever its
\* exit status; the metadata signature file is kept as [present, sig_len,
\* signed_data, returncode].
\* ---------------------------------------------------------------------------
\* The signatures and what _Run may meet: the output of the verifier and its
\* exit status.
VerifiedSigFiles ==
  [present : {TRUE},
   sig_len : {RsaSigLen - 1, RsaSigLen, RsaSigLen + 1},
   signed_data : [len : {Sha256Len, SigAsn1HeaderLen + Sha256Len - 1,
                         SigAsn1HeaderLen + Sha256Len,
                         SigAsn1HeaderLen + Sha256Len + 1},
                  prefix : {SIG_ASN1_HEADER, "other"},
                  hash : Digests],
   returncode : {0, 1}]

SigRunBegin ==
  /\ pc = "run"
  /\ \E f \in VerifiedSigFiles, report_out_file \in BOOLEAN :
       /\ args' = [NoArgs EXCEPT !.pubkey_file_name = TRUE,
                                 !.metadata_sig_file = f,
                                 !.report_out_file = report_out_file]
       /\ payload' = [payload EXCEPT
                        !.payload_file_size = UsualCall(self.block_size).payload_file_size,
                        !.data_offset = PayloadDataOffset]
       /\ report' = NewReport
       /\ LET r == _CheckSha256Signature(f.sig_len, f.signed_data, ManifestHash)
          IN IF r.exc # "none"
             THEN RaiseIn(r.exc, r.msg)
             ELSE /\ pc' = "header"
                  /\ UNCHANGED <<exc, msg, loc, install_operations,
                                 kernel_install_operations>>
  /\ UNCHANGED <<self, manifest, out_file, op_type, checked>>

SigNext ==
  \/ SigRunBegin
  \/ CheckHeader
  \/ DumpReport

SigSpec == Init /\ [][SigNext]_vars

\* ---------------------------------------------------------------------------
\* Run from part 3 on, with a kernel sequence of more than MaxKernelOps
\* operations: the header and the manifest were checked, the manifest passed.
\* ---------------------------------------------------------------------------
\* The constructor calls: the defaults and the dst-pseudo-extents test disabled.
SeqConfigs ==
  {DefaultConfig,
   [DefaultConfig EXCEPT !.disabled_tests = {_CHECK_DST_PSEUDO_EXTENTS}]}
\* The usual manifests with one rootfs operation and MaxKernelOps + 1 kernel
\* operations, without signatures or with a signature blob of bs - 1 bytes
\* after one block or after MaxPartBlocks + 1 blocks of data; and the usual
\* delta manifest with one rootfs operation more than a block counter can
\* count.
SeqManifests(bs) ==
  {[m EXCEPT !.signatures_offset = sig[1], !.signatures_size = sig[2]] :
     m \in {u \in UsualManifests(bs) :
              u.n_install = 1 /\ u.n_kernel = MaxKernelOps},
     sig \in {<<None, None>>, <<bs, bs - 1>>, <<(MaxPartBlocks + 1) * bs, bs - 1>>}}
  \cup {[m EXCEPT !.n_install = UCHAR_MAX + 1] :
          m \in {u \in UsualManifests(bs) :
                   /\ u.n_install = 1 /\ u.n_kernel = MaxKernelOps
                   /\ u.old_rootfs_info.present}}
\* The usual call on a file whose data section ends with that blob.
SeqCalls(bs) ==
  {[UsualCall(bs) EXCEPT !.payload_file_size = PayloadDataOffset + n * bs - 1] :
     n \in {2, MaxPartBlocks + 2}}

\* The state of Run after parts 1 and 2 on such a payload.
SeqInit ==
  /\ \E cfg \in SeqConfigs :
       LET c == NewChecker(cfg.assert_type, cfg.block_size, cfg.allow_unhashed,
                           cfg.disabled_tests)
           bs == c.checker.block_size
       IN \E call \in SeqCalls(bs), m \in SeqManifests(bs) :
            LET mf == [m EXCEPT !.n_kernel = @ + 1]
                st == _CheckManifest(
                        c.checker, mf,
                        AddField(AddField(AddSection(NewReport, "header").rep,
                                          "version", "1").rep,
                                 "manifest len", "<len>").rep,
                        call.rootfs_part_size, call.kernel_part_size)
            IN /\ c.exc = "none" /\ st.exc = "none"
               /\ self = st.self
               /\ report = st.report
               /\ manifest = mf
               /\ args = [pubkey_file_name |-> call.pubkey_file_name,
                          metadata_sig_file |-> call.metadata_sig_file,
                          rootfs_part_size |-> call.rootfs_part_size,
                          kernel_part_size |-> call.kernel_part_size,
                          report_out_file |-> call.report_out_file]
               /\ payload = [NoPayload EXCEPT
                               !.payload_file_size = call.payload_file_size,
                               !.data_offset = PayloadDataOffset,
                               !.header_version = 1]
  /\ install_operations = <<>>
  /\ kernel_install_operations = <<>>
  /\ loc = NoLocals
  /\ out_file = [written |-> FALSE, lines |-> <<>>]
  /\ pc = "rootfs_begin"
  /\ exc = "none"
  /\ msg = ""
  /\ op_type = "none"
  /\ checked = NoCheck

SeqNext ==
  \/ BeginOperations
  \/ CheckOperation
  \/ EndOperations
  \/ CheckPayloadSize
  \/ CheckSignatures
  \/ Summary
  \/ DumpReport

SeqSpec == SeqInit /\ [][SeqNext]_vars

\* ---------------------------------------------------------------------------
\* A _PayloadReport and a client that calls its methods in any order: on the
\* report itself, and AddField on the reports AddSubReport returned to it.
\* exc is what the last call ended in; out_file is what Dump wrote last.
\* ---------------------------------------------------------------------------
\* a report has at most MaxReportNodes nodes
MaxReportNodes == 3
FieldNames == {"a", NoName}

ReportInit ==
  /\ self = NewChecker(NoType, 0, FALSE, {}).checker
  /\ args = NoArgs
  /\ payload = NoPayload
  /\ manifest = NoManifest
  /\ install_operations = <<>>
  /\ kernel_install_operations = <<>>
  /\ loc = NoLocals
  /\ report = NewReport
  /\ out_file = [written |-> FALSE, lines |-> <<>>]
  /\ pc = "report"
  /\ exc = "none"
  /\ msg = ""
  /\ op_type = "none"
  /\ checked = NoCheck

\* A call on the report ended in r = [exc, rep].
ReportCalled(r) ==
  /\ pc = "report"
  /\ Len(report.report) < MaxReportNodes
  /\ exc' = r.exc
  /\ report' = r.rep
  /\ UNCHANGED <<self, args, payload, manifest, install_operations,
                 kernel_install_operations, loc, out_file, pc, msg, op_type,
                 checked>>

ReportAddField ==
  \E name \in FieldNames : ReportCalled(AddField(report, name, "1"))

ReportAddSubReport == ReportCalled(AddSubReport(report, "t"))

ReportAddSection == ReportCalled(AddSection(report, "s"))

\* AddField on the report that an earlier AddSubReport returned.
SubReportAddField ==
  /\ pc = "report"
  /\ \E j \in DOMAIN report.report :
       /\ report.report[j].kind = "sub"
       /\ Len(report.report[j].sub) < MaxReportNodes
       /\ report' = AddSubField(report, j, "a", "1")
  /\ exc' = "none"
  /\ UNCHANGED <<self, args, payload, manifest, install_operations,
                 kernel_install_operations, loc, out_file, pc, msg, op_type,
                 checked>>

ReportFinalize ==
  /\ pc = "report"
  /\ report' = Finalize(report)
  /\ exc' = "none"
  /\ UNCHANGED <<self, args, payload, manifest, install_operations,
                 kernel_install_operations, loc, out_file, pc, msg, op_type,
                 checked>>

ReportDump ==
  /\ pc = "report"
  /\ out_file' = [written |-> TRUE, lines |-> Dump(report, 0, 2)]
  /\ exc' = "none"
  /\ UNCHANGED <<self, args, payload, manifest, install_operations,
                 kernel_install_operations, loc, report, pc, msg, op_type,
                 checked>>

ReportNext ==
  \/ ReportAddField
  \/ ReportAddSubReport
  \/ ReportAddSection
  \/ SubReportAddField
  \/ ReportFinalize
  \/ ReportDump

ReportSpec == ReportInit /\ [][ReportNext]_vars

\* ---------------------------------------------------------------------------
\* Properties of Run
\* ---------------------------------------------------------------------------
\* Run returned without an exception: the payload is accepted.
Accepted == pc = "done" /\ exc = "none"

\* The operations accepted so far, rootfs first, in manifest order.
AllOperations == install_operations \o kernel_install_operations

RECURSIVE SumDataLength(_)
\* The sum of data_length over the operations of ops that carry data.
SumDataLength(ops) ==
  IF ops = <<>> THEN 0
  ELSE FieldValue(Head(ops).data_length) + SumDataLength(Tail(ops))

\* C1: walking install_operations and then kernel_install_operations, every
\* accepted operation that has a data_offset has it equal to the sum of
\* data_length of all earlier operations (0 for the first); the kernel
\* sequence continues the cursor where the rootfs sequence ended.
C1_DataOffsetsContiguous ==
  \A k \in 1..Len(AllOperations) :
    AllOperations[k].data_offset # None =>
      AllOperations[k].data_offset = SumDataLength(SubSeq(AllOperations, 1, k - 1))

\* An accepted payload whose kernel operation carries data that follows the
\* data of the rootfs operation.
C1_Witness ==
  /\ Accepted
  /\ install_operations # <<>> /\ kernel_install_operations # <<>>
  /\ kernel_install_operations[1].data_offset # None
  /\ kernel_install_operations[1].data_offset > 0

\* C2: Run accepts a payload only if payload.data_offset plus the sum of
\* data_length over all operations of both sequences equals the payload file
\* size; with any other total the size check raises PayloadError.
C2_UsedSizeIsFileSize ==
  /\ [](pc = "signatures" \/ pc = "summary" \/ (pc \in {"finally", "done"} /\ exc = "none")
          => payload.data_offset + SumDataLength(AllOperations)
               = payload.payload_file_size)
  /\ [][pc = "payload_size"
          /\ payload.data_offset + SumDataLength(AllOperations)
               # payload.payload_file_size
        => pc' = "finally" /\ exc' = "PayloadError"]_vars

\* An accepted payload with data in both sequences.
C2_Witness ==
  /\ Accepted
  /\ SumDataLength(install_operations) > 0
  /\ SumDataLength(kernel_install_operations) > 0

\* The number of real extents among the dst_extents of ops that cover block b.
RECURSIVE DstReferences(_, _)
DstReferences(ops, b) ==
  IF ops = <<>> THEN 0
  ELSE Cardinality({j \in 1..Len(Head(ops).dst_extents) :
                      LET ex == Head(ops).dst_extents[j] IN
                      /\ ex.start_block # PSEUDO_EXTENT_MARKER
                      /\ ex.start_block <= b
                      /\ b < ex.start_block + ex.num_blocks})
       + DstReferences(Tail(ops), b)

\* ceil(size / block_size)
CeilBlocks(size, block_size) ==
  IF size % block_size = 0 THEN size \div block_size
  ELSE size \div block_size + 1

\* C3: in an accepted full payload, for each partition, every block below
\* ceil(new_fs_size / block_size) is referenced by the dst_extents of that
\* partition's operations exactly once in total.
C3_FullPayloadWritesEachBlockOnce ==
  Accepted /\ self.payload_type = _TYPE_FULL =>
    /\ \A b \in 0..(CeilBlocks(self.new_rootfs_fs_size, self.block_size) - 1) :
         DstReferences(install_operations, b) = 1
    /\ \A b \in 0..(CeilBlocks(self.new_kernel_fs_size, self.block_size) - 1) :
         DstReferences(kernel_install_operations, b) = 1

\* An accepted full payload whose rootfs partition is larger than the new
\* filesystem: a block above the new filesystem size is left unwritten.
C3_Witness ==
  /\ Accepted /\ self.payload_type = _TYPE_FULL
  /\ args.rootfs_part_size > self.new_rootfs_fs_size
  /\ DstReferences(install_operations,
                   CeilBlocks(self.new_rootfs_fs_size, self.block_size)) = 0
  /\ DstReferences(install_operations, 0) = 1

\* C4: Run ends in success or in a PayloadError, whatever the manifest holds.
C4_RunEndsInSuccessOrPayloadError ==
  pc = "done" => exc \in {"none", "PayloadError"}

\* The last line written to report_out_file is the incompleteness marker.
EndsWithMarker ==
  /\ out_file.lines # <<>>
  /\ out_file.lines[Len(out_file.lines)] = INCOMPLETE

C7_NonReplaceInFullFailsWithPayloadError ==
  pc = "done" /\ self.payload_type = _TYPE_FULL /\ op_type \in {MOVE, BSDIFF}
    => exc = "PayloadError"

\* The real extents of a list are non-empty and end within usable_size.
ExtentsWithin(extents, usable_size, block_size) ==
  \A j \in 1..Len(extents) :
    extents[j].start_block # PSEUDO_EXTENT_MARKER =>
      /\ extents[j].num_blocks > 0
      /\ (extents[j].start_block + extents[j].num_blocks) * block_size <= usable_size

\* rootfs_part_size if rootfs_part_size else self.new_rootfs_fs_size
UsableSize(part_size, new_fs_size) ==
  IF part_size # 0 THEN part_size ELSE new_fs_size

\* C10: for every real extent of every accepted operation, num_blocks > 0 and
\* (start_block + num_blocks) * block_size <= usable_size: the old filesystem
\* size for src_extents, the new usable partition size for dst_extents.
C10_RealExtentsWithinUsableSize ==
  /\ \A k \in 1..Len(install_operations) :
       /\ ExtentsWithin(install_operations[k].src_extents,
                        self.old_rootfs_fs_size, self.block_size)
       /\ ExtentsWithin(install_operations[k].dst_extents,
                        UsableSize(args.rootfs_part_size, self.new_rootfs_fs_size),
                        self.block_size)
  /\ \A k \in 1..Len(kernel_install_operations) :
       /\ ExtentsWithin(kernel_install_operations[k].src_extents,
                        self.old_kernel_fs_size, self.block_size)
       /\ ExtentsWithin(kernel_install_operations[k].dst_extents,
                        UsableSize(args.kernel_part_size, self.new_kernel_fs_size),
                        self.block_size)

\* An accepted payload with an operation that has a real src extent and a real
\* dst extent that ends at the usable size.
C10_Witness ==
  /\ Accepted
  /\ \E k \in 1..Len(install_operations) :
       LET op == install_operations[k] IN
       /\ op.src_extents # <<>> /\ op.dst_extents # <<>>
       /\ op.src_extents[1].start_block # PSEUDO_EXTENT_MARKER
       /\ op.dst_extents[1].start_block # PSEUDO_EXTENT_MARKER
       /\ (op.dst_extents[1].start_block + op.dst_extents[1].num_blocks)
            * self.block_size
            = UsableSize(args.rootfs_part_size, self.new_rootfs_fs_size)

\* The stages of Run in the order of its code; "run" is the metadata
\* signature check, the two *_begin/*_ops pairs are the two calls of
\* _CheckOperations, "finally" is the finally clause.
Stages ==
  <<"run", "header", "manifest", "rootfs_begin", "rootfs_ops", "kernel_begin",
    "kernel_ops", "payload_size", "signatures", "summary", "finally">>
StageIndex(stage) == CHOOSE i \in 1..Len(Stages) : Stages[i] = stage

\* The titles of the sections of a report, in order.
SectionTitles(rep) ==
  LET sections == SelectSeq(rep.report, LAMBDA node : node.kind = "section")
  IN [i \in 1..Len(sections) |-> sections[i].name]

\* C11: Run goes through its stages in the fixed order: a stage is entered
\* only from the stage before it and only when that one passed, and the
\* first failing stage leads to the finally clause: no later stage runs.
C11_StagesInOrder ==
  /\ [](exc # "none" => pc \in {"finally", "done"})
  /\ [][pc' # pc =>
          \/ /\ pc # "done" /\ pc' \notin {"finally", "done"}
             /\ exc' = "none"
             /\ StageIndex(pc') = StageIndex(pc) + 1
          \/ pc # "done" /\ pc' = "finally" /\ (exc' # "none" \/ pc = "summary")
          \/ pc = "finally" /\ pc' = "done" /\ exc' = exc]_vars

\* A Run that went through every stage, the payload signature check included.
C11_Witness ==
  /\ Accepted
  /\ SectionTitles(report) = <<"header", "manifest", "rootfs operations",
                               "kernel operations", "signatures", "summary">>

\* The payload type the old_*_info sub-messages of a manifest stand for
\* (NoType when only one of the two is present).
ApparentType(m) ==
  IF m.old_kernel_info.present /\ m.old_rootfs_info.present THEN _TYPE_DELTA
  ELSE IF ~m.old_kernel_info.present /\ ~m.old_rootfs_info.present THEN _TYPE_FULL
  ELSE NoType

\* C12: once the manifest check returned without error, payload_type is
\* 'delta' when old_kernel_info and old_rootfs_info are both present and
\* 'full' when both are absent (a manifest with only one of them did not
\* pass), and it is the type asserted at construction, if one was.
C12_PayloadTypeFromOldInfo ==
  /\ [](exc = "none" /\ pc \notin {"run", "header", "manifest"}
          => /\ self.payload_type \in {_TYPE_FULL, _TYPE_DELTA}
             /\ self.payload_type = ApparentType(manifest))
  /\ [][pc = "manifest" /\ pc' = "rootfs_begin"
          => /\ self'.payload_type = ApparentType(manifest')
             /\ self.payload_type \in {NoType, self'.payload_type}]_vars

\* The manifest check passed on a delta manifest and on a checker that had no
\* asserted type; the sizes of the old partitions were taken too.
C12_Witness ==
  /\ pc = "rootfs_begin" /\ exc = "none"
  /\ ApparentType(manifest) = _TYPE_DELTA /\ self.payload_type = _TYPE_DELTA
  /\ self.old_rootfs_fs_size = manifest.old_rootfs_info.size
  /\ self.old_rootfs_fs_size > 0

\* The payload-sig test is enabled and the manifest declares signatures.
SignaturesDeclared ==
  /\ self.check_payload_sig
  /\ manifest.signatures_size # None /\ manifest.signatures_size > 0

\* C13: at the signatures stage the payload signature check runs (the
\* 'signatures' section is opened) if and only if the payload-sig test is
\* enabled and the manifest declares signatures_size > 0 and a public key was
\* given; when it is due without a public key the stage fails with
\* PayloadError; when it is not due the stage passes, public key or not.
C13_SignatureCheckWhenDue ==
  [][pc = "signatures" =>
       /\ SignaturesDeclared /\ ~args.pubkey_file_name
            => /\ pc' = "finally" /\ exc' = "PayloadError"
               /\ report' = report
       /\ SignaturesDeclared /\ args.pubkey_file_name
            => SectionTitles(report') = Append(SectionTitles(report), "signatures")
       /\ ~SignaturesDeclared
            => pc' = "summary" /\ exc' = "none" /\ report' = report]_vars

\* A payload that declares signatures was accepted without a public key, the
\* payload-sig test being disabled.
C13_Witness ==
  /\ Accepted
  /\ ~args.pubkey_file_name
  /\ ~self.check_payload_sig
  /\ manifest.signatures_size # None /\ manifest.signatures_size > 0

\* The last operation of kernel_install_operations, or of install_operations
\* when the kernel sequence is empty.
LastOperation ==
  IF kernel_install_operations # <<>>
  THEN kernel_install_operations[Len(kernel_install_operations)]
  ELSE install_operations[Len(install_operations)]

\* The last operation is the signature operation the manifest declares.
LastOperationIsSignature ==
  /\ LastOperation.type = REPLACE
  /\ LastOperation.data_offset = manifest.signatures_offset
  /\ LastOperation.data_length = manifest.signatures_size

\* C14: when the payload signature check passes, the last operation is a
\* REPLACE with data_offset = signatures_offset and data_length =
\* signatures_size; with any other last operation the check fails with
\* PayloadError.
C14_LastOperationIsSignature ==
  [][pc = "signatures" /\ SignaturesDeclared /\ args.pubkey_file_name =>
       /\ pc' = "summary" => LastOperationIsSignature
       /\ ~LastOperationIsSignature => pc' = "finally" /\ exc' = "PayloadError"]_vars

\* An accepted payload whose signatures were checked and whose signature
\* operation is the last kernel operation, on a pseudo-extent.
C14_Witness ==
  /\ Accepted
  /\ payload.signatures # <<>>
  /\ kernel_install_operations # <<>>
  /\ LastOperation.dst_extents[1].start_block = PSEUDO_EXTENT_MARKER

\* The entry is a version 1 signature of the digest h.
Verifies(sig, h) ==
  /\ sig.version = 1
  /\ sig.has_data
  /\ sig.sig_len = RsaSigLen
  /\ sig.signed_data = [len |-> SigAsn1HeaderLen + Sha256Len,
                        prefix |-> SIG_ASN1_HEADER, hash |-> h]

\* C15: the payload signature check passes only if the signature block has at
\* least one entry and every entry has version 1 and verifies against the
\* payload hash; an empty block, and an entry that has another version, make
\* the check fail with PayloadError.
C15_EverySignatureVerifies ==
  [][pc = "signatures" /\ SignaturesDeclared /\ args.pubkey_file_name =>
       /\ pc' = "summary" =>
            /\ payload'.signatures # <<>>
            /\ \A k \in DOMAIN payload'.signatures :
                 Verifies(payload'.signatures[k], payload'.payload_hash)
       /\ \/ payload'.signatures = <<>>
          \/ \E k \in DOMAIN payload'.signatures :
               payload'.signatures[k].version \notin {None, 1}
          => pc' = "finally" /\ exc' = "PayloadError"]_vars

\* An accepted payload with two verified signatures.
C15_Witness ==
  /\ Accepted
  /\ Len(payload.signatures) = 2
  /\ SectionTitles(report) =
       <<"header", "manifest", "rootfs operations", "kernel operations",
         "signatures", "summary">>

\* The operation carries data and no hash.
Unhashed(op) == op.data_offset # None /\ op.data_sha256_hash = NoHash

\* The operation checked last may be the signature operation: it is the last
\* operation of kernel_install_operations and has type REPLACE.
CheckedAsSignature ==
  checked.allow_signature /\ checked.is_last /\ checked.op.type = REPLACE

\* C16: with allow_unhashed false, an operation that carries data and no hash
\* and is not the last, REPLACE, operation of kernel_install_operations is
\* rejected with PayloadError.
C16_UnhashedFailsWithPayloadError ==
  pc = "done" /\ ~self.allow_unhashed /\ Unhashed(checked.op) /\ ~CheckedAsSignature
    => exc = "PayloadError"

\* C17: an operation that has a data_sha256_hash and no data, or whose hash
\* differs from that of its blob, is rejected with PayloadError.
C17_BadHashFailsWithPayloadError ==
  /\ pc = "done"
  /\ checked.op.data_sha256_hash # NoHash
  /\ \/ checked.op.data_offset = None
     \/ checked.actual_hash # checked.op.data_sha256_hash
  => exc = "PayloadError"

\* The list has an extent whose start_block is PSEUDO_EXTENT_MARKER.
HasPseudoExtent(extents) ==
  \E j \in DOMAIN extents : extents[j].start_block = PSEUDO_EXTENT_MARKER

C19_FinalizedReportNeverChanges ==
  [][report.is_finalized =>
       /\ Len(report'.report) = Len(report.report)
       /\ GenerateLines(report'.report, 0, 2) = GenerateLines(report.report, 0, 2)]_vars

\* The checker with the tests of D disabled, as the constructor sets them.
WithDisabled(checker, D) ==
  LET c == NewChecker(NoType, checker.block_size, checker.allow_unhashed, D).checker IN
  [checker EXCEPT
     !.check_dst_pseudo_extents = c.check_dst_pseudo_extents,
     !.check_move_same_src_dst_block = c.check_move_same_src_dst_block,
     !.check_payload_sig = c.check_payload_sig]

AllTestsEnabled(checker) ==
  /\ checker.check_dst_pseudo_extents
  /\ checker.check_move_same_src_dst_block
  /\ checker.check_payload_sig

\* The rejections of the tests of D.
TestMessages(D) ==
  {"unexpected pseudo-extent" : t \in D \cap {_CHECK_DST_PSEUDO_EXTENTS}}
  \cup {"src/dst block number is the same" :
          t \in D \cap {_CHECK_MOVE_SAME_SRC_DST_BLOCK}}

\* What the check of the operation of this step ends in for a checker.
StepOperationResult(checker) ==
  _CheckOperation(checker, checked'.op, checked'.is_last,
                  loc.old_block_counters, loc.new_block_counters,
                  loc.old_fs_size, loc.new_usable_size,
                  loc.prev_data_offset + loc.total_data_used,
                  checked'.allow_signature, checked'.actual_hash)

\* What part 5 of this step ends in for a checker.
StepSignaturesResult(checker) ==
  IF ~SignatureCheckDue(checker.check_payload_sig, checker.sigs_size)
  THEN Ok
  ELSE IF ~args.pubkey_file_name
  THEN PayloadError("no public key provided, cannot verify payload signature")
  ELSE LET r == _CheckSignatures(checker, report, payload'.signatures,
                                 install_operations, kernel_install_operations,
                                 payload'.payload_hash)
       IN [exc |-> r.exc, msg |-> r.msg]

\* C20: disabling tests removes only their rejections.  In every step of a
\* Run with no test disabled, the checker with any set D of tests disabled
\* accepts what the step accepts, with the same result, and rejects in the
\* same way what the step rejects for a reason that is not a test of D.  The
\* tests are read by the operation checks and by part 5 only.
C20_DisablingRemovesOnlyItsRejection ==
  [][AllTestsEnabled(self) =>
       /\ pc \in {"rootfs_ops", "kernel_ops"} /\ loc.op_num < NumOperations =>
            LET enabled == StepOperationResult(self) IN
            /\ exc' = "none" => enabled.exc = "none"
            /\ \A D \in SUBSET CHECKS_TO_DISABLE :
                 LET disabled == StepOperationResult(WithDisabled(self, D)) IN
                 IF enabled.exc = "none" THEN disabled = enabled
                 ELSE enabled.msg \notin TestMessages(D) =>
                        disabled.exc = enabled.exc /\ disabled.msg = enabled.msg
       /\ pc = "signatures" =>
            LET enabled == StepSignaturesResult(self) IN
            /\ exc' = "none" <=> enabled.exc = "none"
            /\ \A D \in SUBSET CHECKS_TO_DISABLE :
                 LET disabled == StepSignaturesResult(WithDisabled(self, D)) IN
                 /\ enabled.exc = "none" => disabled.exc = "none"
                 /\ _CHECK_PAYLOAD_SIG \notin D => disabled = enabled]_vars

\* A payload accepted with no test disabled: it has a MOVE operation, and its
\* signatures were checked.
C20_Witness ==
  /\ Accepted /\ AllTestsEnabled(self)
  /\ \E k \in DOMAIN AllOperations : AllOperations[k].type = MOVE
  /\ payload.signatures # <<>>

\* ---------------------------------------------------------------------------
\* A single operation check.  The checker is in the loop of _CheckOperations
\* on a sequence of one operation, right after the counters were allocated,
\* and checks an operation drawn from a domain that is richer in extents and
\* data lengths than the one of Run above.
\* ---------------------------------------------------------------------------
\* The partitions hold every real extent of the domain.
OpPartBlocks == MaxStartBlock + MaxNumBlocks

\* The sequence checks: the block size given to the constructor (0 is the
\* default one), the payload type, the sizes of the partition, the sequence
\* (rootfs or kernel) and the disabled tests.
MainOpContext ==
  [block_size |-> 0,
   payload_type |-> _TYPE_DELTA, old_fs_size |-> OpPartBlocks * _DEFAULT_BLOCK_SIZE,
   new_fs_size |-> OpPartBlocks * _DEFAULT_BLOCK_SIZE, kernel |-> FALSE,
   disabled_tests |-> {}]
OpContexts ==
  {MainOpContext,
   [MainOpContext EXCEPT !.block_size = 1, !.old_fs_size = OpPartBlocks,
                         !.new_fs_size = OpPartBlocks],
   [MainOpContext EXCEPT !.block_size = 2, !.old_fs_size = OpPartBlocks * 2,
                         !.new_fs_size = OpPartBlocks * 2],
   [MainOpContext EXCEPT !.disabled_tests = CHECKS_TO_DISABLE],
   [MainOpContext EXCEPT !.kernel = TRUE],
   [MainOpContext EXCEPT !.new_fs_size = @ - _DEFAULT_BLOCK_SIZE],
   [MainOpContext EXCEPT !.payload_type = _TYPE_FULL, !.old_fs_size = 0]}

\* The extent lists of an operation: up to MaxExtents real extents, or a
\* single empty extent or pseudo-extent.
RealExtents ==
  {Extent(s, n) : s \in 0..MaxStartBlock, n \in 1..MaxNumBlocks}
ExtentLists ==
  SeqsUpTo(RealExtents, MaxExtents)
  \cup {<<Extent(0, 0)>>, <<Extent(PSEUDO_EXTENT_MARKER, 1)>>,
        <<Extent(PSEUDO_EXTENT_MARKER, MaxNumBlocks)>>}

RECURSIVE TotalBlocks(_)
\* The sum of num_blocks over the extents of a list, pseudo-extents included.
TotalBlocks(extents) ==
  IF extents = <<>> THEN 0
  ELSE Head(extents).num_blocks + TotalBlocks(Tail(extents))

\* The data lengths tried with the dst extent list dst: absent, tiny, or
\* around the edges of the last dst block.
DataLengths(dst, bs) ==
  {None, 0, 1}
  \cup {n \in {k * bs + d : k \in {TotalBlocks(dst) - 1, TotalBlocks(dst)},
                           d \in {0 - 1, 0, 1}} : n > 0}

\* The pairs of extent lists of the MOVE operations: the lists of equal
\* length in blocks, and every pair of lists of at most one extent.
MovePairs ==
  {p \in ExtentLists \X ExtentLists :
     \/ TotalBlocks(p[1]) = TotalBlocks(p[2])
     \/ Len(p[1]) <= 1 /\ Len(p[2]) <= 1}

\* The MOVE operations checked.
MoveOps ==
  {Operation(MOVE, p[1], p[2], None, None, NoHash) : p \in MovePairs}

\* A MOVE operation that carries data.
MoveOpsWithData(bs, prev) ==
  {Operation(MOVE, <<Extent(0, 1)>>, <<Extent(1, 1)>>, prev, bs, NoHash)}

\* The operations of the other types checked, on the dst extent list dst.
DataOps(dst, bs, prev) ==
  {Operation(type, src, dst, data_offset, data_length, "h0") :
     type \in {REPLACE, REPLACE_BZ, BSDIFF},
     src \in {<<>>, <<Extent(0, 1)>>},
     data_offset \in {None, prev},
     data_length \in DataLengths(dst, bs)}

OpInit ==
  \E ctx \in OpContexts :
    LET c == NewChecker(NoType, ctx.block_size, FALSE, ctx.disabled_tests).checker IN
    /\ self = [c EXCEPT !.payload_type = ctx.payload_type,
                        !.sigs_offset = None, !.sigs_size = None,
                        !.old_rootfs_fs_size = ctx.old_fs_size,
                        !.old_kernel_fs_size = ctx.old_fs_size,
                        !.new_rootfs_fs_size = ctx.new_fs_size,
                        !.new_kernel_fs_size = ctx.new_fs_size]
    /\ args = [NoArgs EXCEPT !.pubkey_file_name = TRUE]
    /\ payload = [NoPayload EXCEPT
                    !.payload_file_size = PayloadDataOffset + c.block_size,
                    !.data_offset = PayloadDataOffset, !.header_version = 1]
    /\ manifest =
         [block_size |-> c.block_size,
          signatures_offset |-> None, signatures_size |-> None,
          old_kernel_info |-> IF ctx.old_fs_size = 0 THEN NoInfo ELSE Info(ctx.old_fs_size),
          old_rootfs_info |-> IF ctx.old_fs_size = 0 THEN NoInfo ELSE Info(ctx.old_fs_size),
          new_kernel_info |-> Info(ctx.new_fs_size),
          new_rootfs_info |-> Info(ctx.new_fs_size),
          n_install |-> IF ctx.kernel THEN 0 ELSE 1,
          n_kernel |-> IF ctx.kernel THEN 1 ELSE 0]
    /\ install_operations = <<>>
    /\ kernel_install_operations = <<>>
    /\ loc = [NoLocals EXCEPT
                !.allow_signature = ctx.kernel,
                !.old_fs_size = ctx.old_fs_size,
                !.new_fs_size = ctx.new_fs_size,
                !.new_usable_size = ctx.new_fs_size,
                !.old_block_counters =
                  IF ctx.old_fs_size # 0
                  THEN _AllocBlockCounters(ctx.old_fs_size, c.block_size)
                  ELSE NoCounters,
                !.new_block_counters =
                  _AllocBlockCounters(ctx.new_fs_size, c.block_size)]
    /\ report = NewReport
    /\ out_file = [written |-> FALSE, lines |-> <<>>]
    /\ pc = IF ctx.kernel THEN "kernel_ops" ELSE "rootfs_ops"
    /\ exc = "none"
    /\ msg = ""
    /\ op_type = "none"
    /\ checked = NoCheck

OpCheckMove == CheckOperationOn(MoveOps)

OpCheckMoveWithData ==
  CheckOperationOn(MoveOpsWithData(self.block_size,
                                   loc.prev_data_offset + loc.total_data_used))

OpCheckData ==
  \E dst \in ExtentLists :
    CheckOperationOn(DataOps(dst, self.block_size,
                             loc.prev_data_offset + loc.total_data_used))

\* The operations checked that have src_length or dst_length: the MOVE
\* operations on the pair p of extent lists, and a REPLACE of one block (no
\* src_extents), with one of the two lengths absent and the other tiny or
\* around the edges of the last block of its extents.
OpsWithLength(p, bs, prev) ==
  {[op EXCEPT !.src_length = len[1], !.dst_length = len[2]] :
     op \in {Operation(MOVE, p[1], p[2], None, None, NoHash),
             Operation(REPLACE, <<>>, <<Extent(0, 1)>>, prev, bs, "h0")},
     len \in ((DataLengths(p[1], bs) \ {None}) \X {None})
             \cup ({None} \X (DataLengths(p[2], bs) \ {None}))}

OpCheckLength ==
  \E p \in MovePairs :
    CheckOperationOn(OpsWithLength(p, self.block_size,
                                   loc.prev_data_offset + loc.total_data_used))

OpNext ==
  \/ OpCheckMove
  \/ OpCheckMoveWithData
  \/ OpCheckData
  \/ OpCheckLength

OpSpec == OpInit /\ [][OpNext]_vars

\* ---------------------------------------------------------------------------
\* Properties of the operation check
\* ---------------------------------------------------------------------------
RECURSIVE Flatten(_)
\* The block numbers of an extent list, one per block, in order.
Flatten(extents) ==
  IF extents = <<>> THEN <<>>
  ELSE [i \in 1..Head(extents).num_blocks |-> Head(extents).start_block + i - 1]
       \o Flatten(Tail(extents))

\* The operations of type t accepted so far.
AcceptedOfType(t) ==
  {AllOperations[k] : k \in {j \in 1..Len(AllOperations) : AllOperations[j].type = t}}

\* C6: a MOVE operation accepted while the move-same-src-dst-block check is
\* enabled has as many src blocks as dst blocks, and at every position the
\* block number of the flattened src_extents differs from the block number
\* of the flattened dst_extents.
C6_MoveBlocksDifferByPosition ==
  self.check_move_same_src_dst_block =>
    \A op \in AcceptedOfType(MOVE) :
      /\ TotalBlocks(op.src_extents) = TotalBlocks(op.dst_extents)
      /\ \A i \in 1..TotalBlocks(op.src_extents) :
           Flatten(op.src_extents)[i] # Flatten(op.dst_extents)[i]

\* An accepted MOVE whose src and dst extent boundaries do not align.
C6_Witness ==
  /\ self.check_move_same_src_dst_block
  /\ \E op \in AcceptedOfType(MOVE) :
       /\ Len(op.src_extents) = 2 /\ Len(op.dst_extents) = 2
       /\ op.src_extents[1].num_blocks # op.dst_extents[1].num_blocks

\* C8: an accepted REPLACE operation has no src_extents, has data_length, and
\* (total_dst_blocks - 1) * block_size < data_length
\*                                     <= total_dst_blocks * block_size.
C8_ReplaceDataLengthFitsBlocks ==
  \A op \in AcceptedOfType(REPLACE) :
    /\ op.src_extents = <<>>
    /\ op.data_offset # None /\ op.data_length # None
    /\ (TotalBlocks(op.dst_extents) - 1) * self.block_size < op.data_length
    /\ op.data_length <= TotalBlocks(op.dst_extents) * self.block_size

\* An accepted REPLACE of more than one block whose data fill the blocks
\* exactly.
C8_Witness ==
  \E op \in AcceptedOfType(REPLACE) :
    /\ TotalBlocks(op.dst_extents) > 1
    /\ op.data_length = TotalBlocks(op.dst_extents) * self.block_size

\* C9: an accepted REPLACE_BZ or BSDIFF operation has data_length, and
\* data_length < total_dst_blocks * block_size.
C9_CompressedDataLengthBelowBlocks ==
  \A op \in AcceptedOfType(REPLACE_BZ) \cup AcceptedOfType(BSDIFF) :
    /\ op.data_length # None
    /\ op.data_length < TotalBlocks(op.dst_extents) * self.block_size

\* An accepted BSDIFF whose data are one byte short of its dst blocks.
C9_Witness ==
  \E op \in AcceptedOfType(BSDIFF) :
    op.data_length = TotalBlocks(op.dst_extents) * self.block_size - 1

\* The length fits the blocks of the extent list: it is not zero and
\* (total_blocks - 1) * block_size < length <= total_blocks * block_size.
LengthFits(length, extents, block_size) ==
  /\ length # 0
  /\ (TotalBlocks(extents) - 1) * block_size < length
  /\ length <= TotalBlocks(extents) * block_size

\* C21: the src_length (dst_length) of an accepted operation that has one is
\* not zero and lies in the last block of its src_extents (dst_extents),
\* pseudo-extents included.
C21_LengthFitsExtents ==
  \A k \in DOMAIN AllOperations :
    LET op == AllOperations[k] IN
    /\ op.src_length # None => LengthFits(op.src_length, op.src_extents, self.block_size)
    /\ op.dst_length # None => LengthFits(op.dst_length, op.dst_extents, self.block_size)

\* An accepted MOVE of several blocks whose src_length ends within the last
\* of them.
C21_Witness ==
  \E op \in AcceptedOfType(MOVE) :
    /\ op.src_length # None
    /\ TotalBlocks(op.src_extents) > 1
    /\ op.src_length < TotalBlocks(op.src_extents) * self.block_size

\* The positive powers of two up to 2^16.
PowersOfTwo == {2 ^ e : e \in 0..16}

\* The constructor raised.
NotConstructed == pc = "done" /\ msg = "expected block size is not a power of two"

\* C22: the block size of a constructed checker is a positive power of two
\* (the default when 0 was given); the constructor fails with PayloadError
\* on any other block size; and the manifest of an accepted payload has a
\* block_size, equal to that of the checker.
C22_BlockSizeIsPowerOfTwo ==
  /\ ~NotConstructed => self.block_size \in PowersOfTwo
  /\ NotConstructed => exc = "PayloadError" /\ self.block_size \in BlockSizes \ PowersOfTwo
  /\ Accepted => manifest.block_size # None /\ manifest.block_size = self.block_size

\* A payload accepted by a checker constructed with a block size of 2.
C22_Witness == Accepted /\ self.block_size = 2

\* The signature is 256 bytes long and the verifier returned SIG_ASN1_HEADER
\* followed by the 32 bytes of the digest h.
SignsDigest(f, h) ==
  /\ f.sig_len = 256
  /\ f.signed_data.len = SigAsn1HeaderLen + 32
  /\ f.signed_data.prefix = SIG_ASN1_HEADER
  /\ f.signed_data.hash = h

\* C23: the signature check passes if and only if the signature is 256 bytes
\* long and the verifier returned SIG_ASN1_HEADER followed by the expected
\* digest, and fails with PayloadError otherwise, whatever the exit status of
\* the verifier.
C23_SignatureAcceptedIffWellFormed ==
  [][pc = "run" =>
       /\ pc' = "header" /\ exc' = "none"
             <=> SignsDigest(args'.metadata_sig_file, ManifestHash)
       /\ ~SignsDigest(args'.metadata_sig_file, ManifestHash)
             => pc' = "finally" /\ exc' = "PayloadError"]_vars

\* A metadata signature that passed although the verifier exited with 1.
C23_Witness ==
  /\ pc = "header" /\ exc = "none"
  /\ args.metadata_sig_file.present
  /\ args.metadata_sig_file.returncode = 1

\* The sizes a manifest reports for a partition fit in part_size; an absent
\* old_*_info reports no old size.
SizesFit(old_info, new_info, part_size) ==
  /\ old_info.present => old_info.size <= part_size
  /\ new_info.size <= part_size

\* The real dst extents of the operations end within bound.
DstWithin(operations, bound, block_size) ==
  \A k \in 1..Len(operations) :
    \A j \in 1..Len(operations[k].dst_extents) :
      LET ex == operations[k].dst_extents[j] IN
      ex.start_block # PSEUDO_EXTENT_MARKER
        => (ex.start_block + ex.num_blocks) * block_size <= bound

\* Run is past its manifest check and has not failed.
PastManifest ==
  pc \in {"rootfs_begin", "rootfs_ops", "kernel_begin", "kernel_ops",
          "payload_size", "signatures", "summary"} \/ Accepted

\* C24: once Run is past the manifest check, and so whenever it accepts, the
\* old and new sizes the manifest reports for a partition do not exceed a
\* non-zero partition size given by the caller, and the real dst extents of
\* the operations accepted for that partition end within the partition size,
\* or within the reported new filesystem size when the partition size is 0.
C24_SizesAndDstWithinPartition ==
  PastManifest =>
    /\ args.rootfs_part_size # 0
         => /\ SizesFit(manifest.old_rootfs_info, manifest.new_rootfs_info,
                        args.rootfs_part_size)
            /\ DstWithin(install_operations, args.rootfs_part_size,
                         self.block_size)
    /\ args.kernel_part_size # 0
         => /\ SizesFit(manifest.old_kernel_info, manifest.new_kernel_info,
                        args.kernel_part_size)
            /\ DstWithin(kernel_install_operations, args.kernel_part_size,
                         self.block_size)
    /\ args.rootfs_part_size = 0
         => DstWithin(install_operations, manifest.new_rootfs_info.size,
                      self.block_size)
    /\ args.kernel_part_size = 0
         => DstWithin(kernel_install_operations, manifest.new_kernel_info.size,
                      self.block_size)

\* An accepted delta payload for a kernel partition larger than the new
\* kernel, with a kernel operation that writes beyond the new kernel's size.
C24_Witness ==
  /\ Accepted
  /\ args.kernel_part_size > manifest.new_kernel_info.size
  /\ manifest.old_kernel_info.present
  /\ ~DstWithin(kernel_install_operations, manifest.new_kernel_info.size,
                self.block_size)

\* A payload accepted without a partition size whose rootfs operation writes
\* up to the end of the reported new filesystem.
C24_WitnessNoPartSize ==
  /\ Accepted
  /\ args.rootfs_part_size = 0
  /\ install_operations # <<>>
  /\ ~DstWithin(install_operations, manifest.new_rootfs_info.size - 1,
                self.block_size)

\* The last operation checked is a REPLACE of at least one dst block whose
\* data_length is total_dst_blocks * block_size + d.
CheckedReplaceOfLength(d) ==
  /\ checked # NoCheck
  /\ checked.op.type = REPLACE
  /\ TotalBlocks(checked.op.dst_extents) >= 1
  /\ checked.op.data_length # None
  /\ checked.op.data_length
       = TotalBlocks(checked.op.dst_extents) * self.block_size + d

\* The last operation checked was rejected by the data_length check of
\* _CheckReplaceOperation.
RejectedForDataLength ==
  /\ exc = "PayloadError"
  /\ msg \in {"data_length > num blocks * block_size",
              "data_length <= (num blocks - 1) * block_size",
              "data_length must be less than allotted dst block space"}

\* The data_length check lets pass a REPLACE whose data fill its dst blocks
\* exactly or but for one byte, and the operation is rejected when the data
\* are one byte longer than the dst blocks.
ReplaceLengthEdges ==
  /\ CheckedReplaceOfLength(0) => ~RejectedForDataLength
  /\ CheckedReplaceOfLength(1) => RejectedForDataLength \/ exc # "none"
  /\ CheckedReplaceOfLength(0 - 1) => ~RejectedForDataLength

\* C25 as stated: at every block size, a REPLACE passes the data_length check
\* with data_length = total_dst_blocks * block_size and with one byte less,
\* and is rejected with one byte more.
C25_ReplaceLengthEdgesAtAnyBlockSize == ReplaceLengthEdges

\* C25, amended: the same at every block size greater than 1.  At block size
\* 1 the data that are one byte short of the dst blocks fill one block less,
\* and are rejected.
C25_ReplaceLengthEdgesAboveOneByteBlocks ==
  self.block_size > 1 => ReplaceLengthEdges

\* A REPLACE of two dst blocks of two bytes, accepted with three bytes of
\* data.
C25_Witness ==
  /\ self.block_size = 2
  /\ CheckedReplaceOfLength(0 - 1)
  /\ TotalBlocks(checked.op.dst_extents) = 2
  /\ exc = "none"
  /\ checked.op \in AcceptedOfType(REPLACE)

\* The number of real extents of the src_extents (src = TRUE) or dst_extents
\* of the operations that cover block b.
Covering(operations, src, b) ==
  Cardinality(
    {e \in (1..Len(operations)) \X (1..(MaxExtents + 1)) :
       LET extents == IF src THEN operations[e[1]].src_extents
                      ELSE operations[e[1]].dst_extents
       IN /\ e[2] <= Len(extents)
          /\ extents[e[2]].start_block # PSEUDO_EXTENT_MARKER
          /\ extents[e[2]].start_block <= b
          /\ b < extents[e[2]].start_block + extents[e[2]].num_blocks})

\* The counters count the real src (dst) extents of the operations.
CountersCount(block_counters, operations, src) ==
  \A i \in 1..Len(block_counters.arr) :
    block_counters.arr[i] = Covering(operations, src, i - 1)

\* The operations accepted so far in the sequence that is being checked.
SequenceSoFar ==
  IF pc = "rootfs_ops" THEN install_operations ELSE kernel_install_operations

\* C26: while a sequence is checked, each counter of the old (new) partition
\* is the number of real src (dst) extents, of the operations of that
\* sequence accepted so far, that cover its block; without an array of old
\* counters no real src extent was accepted.  The number is the exact one
\* beyond UCHAR_MAX - 1 too.
C26_CountersCountRealExtents ==
  pc \in {"rootfs_ops", "kernel_ops"} =>
    /\ CountersCount(loc.new_block_counters, SequenceSoFar, FALSE)
    /\ IF loc.old_block_counters.is_none
       THEN \A b \in 0..(MaxStartBlock + MaxNumBlocks) :
              Covering(SequenceSoFar, TRUE, b) = 0
       ELSE CountersCount(loc.old_block_counters, SequenceSoFar, TRUE)

\* UCHAR_MAX operations of the rootfs sequence that read block 0 were
\* accepted.
C26_Witness ==
  /\ pc = "rootfs_ops"
  /\ Len(install_operations) = UCHAR_MAX
  /\ loc.old_block_counters.arr[1] = UCHAR_MAX
  /\ loc.new_block_counters.arr[1] = 0

\* The errors of the parallel walk that tell of extents that do not end
\* together.
WalkErrors ==
  {"ran out of src extents", "ran out of dst extents",
   "excess src blocks", "excess dst blocks"}

\* The last operation checked is a MOVE with as many src blocks as dst
\* blocks and without an empty extent.
CheckedBalancedMove ==
  /\ checked # NoCheck
  /\ checked.op.type = MOVE
  /\ TotalBlocks(checked.op.src_extents) = TotalBlocks(checked.op.dst_extents)
  /\ \A j \in 1..Len(checked.op.src_extents) :
       checked.op.src_extents[j].num_blocks > 0
  /\ \A j \in 1..Len(checked.op.dst_extents) :
       checked.op.dst_extents[j].num_blocks > 0

\* The parallel walk over the extents of the last operation checked.
CheckedMoveWalk ==
  MoveWalk(checked.op, MoveWalkStart, TotalBlocks(checked.op.src_extents),
           self.check_move_same_src_dst_block)

\* The walk r ended after total positions with both extent lists taken to
\* their ends and no extent held.
WalkedToEnd(r, op, total) ==
  /\ r.walk.i = total
  /\ r.walk.src_taken = Len(op.src_extents) /\ ~r.walk.src_extent
  /\ r.walk.dst_taken = Len(op.dst_extents) /\ ~r.walk.dst_extent

\* C27: the walk over a MOVE with as many src blocks as dst blocks and no
\* empty extent takes at most total_src_blocks iterations; unless the
\* same-block test stops it, it ends after exactly total_src_blocks positions
\* with both extent lists exhausted together.  It never ends in one of the
\* errors of extents that do not end together, and no check ends in one.
C27_MoveWalkEndsTogether ==
  /\ msg \notin WalkErrors
  /\ CheckedBalancedMove =>
       /\ CheckedMoveWalk.msg \notin WalkErrors
       /\ CheckedMoveWalk.walk.steps <= TotalBlocks(checked.op.src_extents)
       /\ IF CheckedMoveWalk.exc = "none"
          THEN WalkedToEnd(CheckedMoveWalk, checked.op,
                           TotalBlocks(checked.op.src_extents))
          ELSE CheckedMoveWalk.msg = "src/dst block number is the same"

\* An accepted MOVE of one src extent to two dst extents: the walk took two
\* iterations.
C27_Witness ==
  /\ CheckedBalancedMove
  /\ exc = "none"
  /\ checked.op \in AcceptedOfType(MOVE)
  /\ Len(checked.op.src_extents) = 1 /\ Len(checked.op.dst_extents) = 2
  /\ CheckedMoveWalk.walk.steps = 2

\* _CheckExtents on an extent list, for a partition without a usable size
\* whose counters reach beyond the blocks of every extent checked, with
\* pseudo-extents allowed.
ExtentsChecked(extents) ==
  _CheckExtents(extents, 0,
                _AllocBlockCounters((MaxStartBlock + MaxNumBlocks) * self.block_size,
                                    self.block_size),
                TRUE, FALSE, self.block_size)

\* The extent check of a list it lets pass returns the sum of num_blocks
\* over the list.
ReturnsTotalBlocks(extents) ==
  ExtentsChecked(extents).exc = "none"
    => ExtentsChecked(extents).total = TotalBlocks(extents)

\* C28: _CheckExtents returns the sum of num_blocks over the extents of the
\* src_extents and of the dst_extents of the operation checked, the blocks of
\* pseudo-extents included, and an accepted REPLACE whose only dst extent is a
\* pseudo-extent has num_blocks = ceil(data_length / block_size).
C28_PseudoExtentBlocksCount ==
  /\ checked # NoCheck
       => /\ ReturnsTotalBlocks(checked.op.src_extents)
          /\ ReturnsTotalBlocks(checked.op.dst_extents)
  /\ \A op \in AcceptedOfType(REPLACE) :
       (Len(op.dst_extents) = 1
          /\ op.dst_extents[1].start_block = PSEUDO_EXTENT_MARKER)
         => op.dst_extents[1].num_blocks
              = CeilBlocks(op.data_length, self.block_size)

\* An accepted REPLACE whose only dst extent is a pseudo-extent of more than
\* one block, with data that reach one byte into its last block.
C28_Witness ==
  \E op \in AcceptedOfType(REPLACE) :
    /\ Len(op.dst_extents) = 1
    /\ op.dst_extents[1].start_block = PSEUDO_EXTENT_MARKER
    /\ op.dst_extents[1].num_blocks > 1
    /\ op.data_length = (op.dst_extents[1].num_blocks - 1) * self.block_size + 1

\* Run is past its payload signature check, which was performed, and has not
\* failed.
PastSignatureCheck ==
  /\ pc = "summary" \/ Accepted
  /\ payload.signatures # <<>>

\* C29: once the payload signature check was performed and passed, and so
\* whenever Run succeeds after it, the signatures blob ends the file:
\* data_offset + signatures_offset + signatures_size is the payload file
\* size, and signatures_offset is the sum of data_length over all operations
\* but the last.
C29_SignaturesBlobEndsFile ==
  PastSignatureCheck =>
    /\ payload.data_offset + manifest.signatures_offset + manifest.signatures_size
         = payload.payload_file_size
    /\ manifest.signatures_offset
         = SumDataLength(SubSeq(AllOperations, 1, Len(AllOperations) - 1))

\* An accepted payload whose signatures were checked, with data of a rootfs
\* operation and of a kernel operation before the signatures blob.
C29_Witness ==
  /\ Accepted
  /\ payload.signatures # <<>>
  /\ SumDataLength(install_operations) > 0
  /\ Len(kernel_install_operations) > 1
  /\ manifest.signatures_offset > SumDataLength(install_operations)

\* C30: an operation of a type other than REPLACE, REPLACE_BZ, MOVE and
\* BSDIFF ends the run in PayloadError 'invalid type', whatever else is wrong
\* with it; no check ends in the 'cannot get here' assertion of the type
\* dispatch; and an accepted MOVE carries no data, so that no blob total is
\* looked up for it.
C30_InvalidTypeRejectedFirst ==
  /\ (checked # NoCheck /\ checked.op.type \notin OpTypes)
       => exc = "PayloadError" /\ msg = "invalid type"
  /\ msg # "cannot get here"
  /\ exc # "KeyError"
  /\ \A op \in AcceptedOfType(MOVE) :
       op.data_offset = None /\ op.data_length = None

\* A rootfs operation of an invalid type whose dst_extents are a
\* pseudo-extent, which no rootfs operation may have, was rejected for its
\* type.
C30_Witness ==
  /\ pc = "done"
  /\ checked # NoCheck
  /\ checked.op.type \notin OpTypes
  /\ ~checked.allow_signature
  /\ self.check_dst_pseudo_extents
  /\ checked.op.dst_extents = <<Extent(PSEUDO_EXTENT_MARKER, 1)>>
  /\ msg = "invalid type"

====
